---- MODULE Spec2Model ----
(***************************************************************************)
(* Secure-Agent-Launcher (agent_locker): the deny-path policy, the         *)
(* argument-to-path extractor, the run gate CommandRunner.run and the      *)
(* rotating audit log, as state machines.                                   *)
(*                                                                         *)
(* Strings are sequences of one-character strings, so that the extractor's *)
(* tests (startswith, endswith, partition on "=") are computed and not     *)
(* assumed.  A pathlib.Path is the sequence of its components below the    *)
(* root "/"; the modelled file system holds no symbolic links.             *)
(***************************************************************************)
EXTENDS FiniteSets, Integers, Sequences, TLC

None == "None"

(* ------------------------------ bounds ------------------------------- *)

\* longest command (number of tokens) a RunRequest carries
MaxCmdLen == 2

(* ------------------------ character sequences ------------------------ *)

\* the characters of the model in code-point order (str comparison, sorted())
AsciiOrder ==
  << "-", ".", "/", "0", "1", "2", "3", "4", "5", "6", "7", "8", "9", ":", "=",
     "A", "B", "C", "D", "E", "F", "G", "H", "I", "J", "K", "L", "M", "N", "O",
     "P", "Q", "R", "S", "T", "U", "V", "W", "X", "Y", "Z", "\\", "_",
     "a", "b", "c", "d", "e", "f", "g", "h", "i", "j", "k", "l", "m", "n", "o",
     "p", "q", "r", "s", "t", "u", "v", "w", "x", "y", "z", "~" >>

ord(ch) == CHOOSE i \in 1..Len(AsciiOrder) : AsciiOrder[i] = ch

Digits == {"0", "1", "2", "3", "4", "5", "6", "7", "8", "9"}

Letters ==
  {"A", "B", "C", "D", "E", "F", "G", "H", "I", "J", "K", "L", "M", "N", "O",
   "P", "Q", "R", "S", "T", "U", "V", "W", "X", "Y", "Z",
   "a", "b", "c", "d", "e", "f", "g", "h", "i", "j", "k", "l", "m", "n", "o",
   "p", "q", "r", "s", "t", "u", "v", "w", "x", "y", "z"}

startswith(value, prefix) ==
  /\ Len(prefix) <= Len(value)
  /\ SubSeq(value, 1, Len(prefix)) = prefix

endswith(value, suffix) ==
  /\ Len(suffix) <= Len(value)
  /\ SubSeq(value, Len(value) - Len(suffix) + 1, Len(value)) = suffix

\* ch in value
contains(value, ch) == \E i \in 1..Len(value) : value[i] = ch

\* str.find: the first index of ch in value (1-based), 0 when absent
find(value, ch) ==
  IF contains(value, ch)
    THEN CHOOSE i \in 1..Len(value) :
           value[i] = ch /\ \A j \in 1..(i - 1) : value[j] # ch
    ELSE 0

\* value.split("=", 1) / value.partition("="): the halves around the first "="
left_of(value, ch) == SubSeq(value, 1, find(value, ch) - 1)

right_of(value, ch) == SubSeq(value, find(value, ch) + 1, Len(value))

\* a < b for str (lexicographic by code point)
RECURSIVE str_less(_, _)
str_less(a, b) ==
  IF b = <<>> THEN FALSE
  ELSE IF a = <<>> THEN TRUE
  ELSE IF a[1] # b[1] THEN ord(a[1]) < ord(b[1])
  ELSE str_less(Tail(a), Tail(b))

\* a sort with the order reversed
RECURSIVE sorted_descending(_)
sorted_descending(strs) ==
  IF strs = {} THEN <<>>
  ELSE LET greatest == CHOOSE s \in strs : \A t \in strs \ {s} : str_less(t, s)
       IN  <<greatest>> \o sorted_descending(strs \ {greatest})

\* sorted(set of str)
RECURSIVE sorted(_)
sorted(strs) ==
  IF strs = {} THEN <<>>
  ELSE LET least == CHOOSE s \in strs : \A t \in strs \ {s} : str_less(s, t)
       IN  <<least>> \o sorted(strs \ {least})

Range(seq) == {seq[i] : i \in 1..Len(seq)}

(* ------------------------------- paths ------------------------------- *)

\* the pieces of a string between "/" characters (empty pieces included)
RECURSIVE split_sep(_)
split_sep(value) ==
  IF ~contains(value, "/") THEN <<value>>
  ELSE <<left_of(value, "/")>> \o split_sep(right_of(value, "/"))

\* pathlib parsing: empty and "." components are dropped when a Path is built
RECURSIVE parse_parts(_)
parse_parts(pieces) ==
  IF pieces = <<>> THEN <<>>
  ELSE (IF pieces[1] = <<>> \/ pieces[1] = <<".">> THEN <<>> ELSE <<pieces[1]>>)
         \o parse_parts(Tail(pieces))

Path(value) ==
  [absolute |-> startswith(value, <<"/">>), parts |-> parse_parts(split_sep(value))]

\* str(path) of an absolute path given by its components
RECURSIVE path_str(_)
path_str(parts) ==
  IF parts = <<>> THEN <<"/">>
  ELSE IF Len(parts) = 1 THEN <<"/">> \o parts[1]
  ELSE <<"/">> \o parts[1] \o path_str(Tail(parts))

\* the home directory of the invoking user, and the accounts of the host
HomeDir == << <<"h">> >>

KnownUsers == {}

\* Path.expanduser: only a relative path whose first component starts with "~"
\* is rewritten; an unknown account raises RuntimeError
expanduser(p) ==
  IF p.absolute \/ p.parts = <<>> \/ ~startswith(p.parts[1], <<"~">>)
    THEN [exc |-> None, absolute |-> p.absolute, parts |-> p.parts]
  ELSE IF p.parts[1] = <<"~">>
    THEN [exc |-> None, absolute |-> TRUE, parts |-> HomeDir \o Tail(p.parts)]
  ELSE IF Tail(p.parts[1]) \in KnownUsers
    THEN [exc |-> None, absolute |-> TRUE,
          parts |-> <<<<"h", "o", "m", "e">>, Tail(p.parts[1])>> \o Tail(p.parts)]
  ELSE [exc |-> "RuntimeError", absolute |-> FALSE, parts |-> <<>>]

\* one component of Path.resolve(strict=False) on a path without symbolic
\* links: ".." steps to the parent, and the parent of the root is the root
resolve_step(done, part) ==
  IF part # <<".", ".">> THEN Append(done, part)
  ELSE IF done = <<>> THEN <<>>
  ELSE SubSeq(done, 1, Len(done) - 1)

\* Path.resolve(strict=False): the components of rest applied to done in turn
RECURSIVE resolve(_, _)
resolve(done, rest) ==
  IF rest = <<>> THEN done
  ELSE resolve(resolve_step(done, rest[1]), Tail(rest))

\* An optional value (X | None) is a sequence of at most one element
Nothing == <<>>

Some(v) == <<v>>

\* normalize_path that returns the joined path without Path.resolve
join_without_resolve(raw, root) ==
  IF raw.exc # None THEN [exc |-> raw.exc, path |-> <<>>]
  ELSE [exc |-> None, path |-> IF raw.absolute THEN raw.parts ELSE root \o raw.parts]

\* the end of normalize_path: a relative path is joined to root, then
\* Path.resolve(strict=False); raw is the result of Path(path).expanduser()
join_and_resolve(raw, root) ==
  IF raw.exc # None THEN [exc |-> raw.exc, path |-> <<>>]
  ELSE [exc |-> None,
        path |-> resolve(<<>>, IF raw.absolute THEN raw.parts ELSE root \o raw.parts)]

\* normalize_path(path, base_dir): root is base_dir, or Path.cwd() without one
normalize_path(path, base_dir, process_cwd) ==
  join_and_resolve(expanduser(Path(path)),
                   IF base_dir # Nothing THEN base_dir[1] ELSE process_cwd)

(* ------------------------------ policy ------------------------------- *)

\* containment decided on the strings: str(path).startswith(str(parent))
is_subpath_by_string_prefix(path, parent) ==
  startswith(path_str(path), path_str(parent))

\* is_subpath(path, parent): PurePath.relative_to succeeds iff the first
\* len(parent) components of path are those of parent
is_subpath(path, parent) ==
  /\ Len(parent) <= Len(path)
  /\ SubSeq(path, 1, Len(parent)) = parent

\* is_denied without the test of the enabled flag
is_denied_ignoring_enabled(policy, target, process_cwd) ==
  LET normalized == normalize_path(path_str(target), Nothing, process_cwd).path
  IN  \E i \in 1..Len(policy.deny_paths) :
        is_subpath(normalized, policy.deny_paths[i])

\* Policy.is_denied(target): target is a Path, normalized again without base_dir
is_denied(policy, target, process_cwd) ==
  IF ~policy.enabled THEN FALSE
  ELSE LET normalized == normalize_path(path_str(target), Nothing, process_cwd).path
       IN  \E i \in 1..Len(policy.deny_paths) :
             is_subpath(normalized, policy.deny_paths[i])

(* ----------------------------- extractor ----------------------------- *)

PATH_OPTION_NAMES ==
  { <<"-", "C">>, <<"-", "c">>, <<"-", "f">>, <<"-", "o">>, <<"-", "-", "c", "d">>, <<"-", "-", "c", "o", "n", "f", "i", "g">>,
    <<"-", "-", "c", "o", "n", "f", "i", "g", "-", "f", "i", "l", "e">>, <<"-", "-", "c", "o", "n", "f", "i", "g", "-", "p", "a", "t", "h">>, <<"-", "-", "c", "w", "d">>, <<"-", "-", "d", "i", "r", "e", "c", "t", "o", "r", "y">>,
    <<"-", "-", "f", "i", "l", "e">>, <<"-", "-", "i", "n", "p", "u", "t">>, <<"-", "-", "l", "o", "g", "-", "f", "i", "l", "e">>, <<"-", "-", "o", "u", "t", "p", "u", "t">>, <<"-", "-", "p", "a", "t", "h">>,
    <<"-", "-", "p", "o", "l", "i", "c", "y">>, <<"-", "-", "p", "r", "o", "j", "e", "c", "t">>, <<"-", "-", "r", "o", "o", "t">>, <<"-", "-", "s", "e", "t", "t", "i", "n", "g", "s">>, <<"-", "-", "w", "o", "r", "k", "d", "i", "r">> }

PATH_SUFFIX_HINTS ==
  { <<".", "c", "f", "g">>, <<".", "c", "o", "n", "f">>, <<".", "c", "r", "t">>, <<".", "c", "s", "r">>, <<".", "e", "n", "v">>, <<".", "i", "n", "i">>,
    <<".", "j", "s", "o", "n">>, <<".", "k", "e", "y">>, <<".", "m", "d">>, <<".", "p", "e", "m">>, <<".", "p", "y">>, <<".", "s", "h">>,
    <<".", "t", "o", "m", "l">>, <<".", "t", "x", "t">>, <<".", "y", "a", "m", "l">>, <<".", "y", "m", "l">> }

_looks_like_path(value) ==
  IF value = <<>> THEN FALSE
  ELSE \/ startswith(value, <<"~">>)
       \/ startswith(value, <<"/">>)
       \/ startswith(value, <<".", "/">>)
       \/ startswith(value, <<".", ".", "/">>)
       \/ endswith(value, <<"/">>)
       \/ endswith(value, <<"\\">>)
       \/ \E hint \in PATH_SUFFIX_HINTS : endswith(value, hint)
       \/ (Len(value) >= 3 /\ SubSeq(value, 2, 3) \in {<<":", "\\">>, <<":", "/">>})
       \/ contains(value, "/")
       \/ contains(value, "\\")

_option_expects_path(option_name) == option_name \in PATH_OPTION_NAMES

\* re.fullmatch(r"[A-Za-z_][A-Za-z0-9_]*", left) is not None, left not empty
fullmatch_name(left) ==
  IF left = <<>> THEN FALSE
  ELSE /\ left[1] \in Letters \cup {"_"}
       /\ \A i \in 2..Len(left) : left[i] \in Letters \cup Digits \cup {"_"}

_is_env_assignment(token) ==
  IF ~contains(token, "=") THEN FALSE
  ELSE fullmatch_name(left_of(token, "="))

\* tokens.append(value) if _looks_like_path(value)
append_if_path(value) ==
  IF _looks_like_path(value) THEN <<value>> ELSE <<>>

\* the raw tokens of one argument that are tested as paths (at most one): the
\* text right of the first "=" when there is one, else the argument
_extract_path_tokens(arg) ==
  append_if_path(IF contains(arg, "=") THEN right_of(arg, "=") ELSE arg)

\* the try block of _resolve_candidate_paths on the result n of normalize_path:
\* an OSError drops the token, any other exception leaves the function
append_resolved(n) ==
  IF n.exc = None THEN [exc |-> None, paths |-> <<n.path>>]
  ELSE IF n.exc = "OSError" THEN [exc |-> None, paths |-> <<>>]
  ELSE [exc |-> n.exc, paths |-> <<>>]

\* the loop of _resolve_candidate_paths over at most one token
resolve_tokens(tokens, cwd, process_cwd) ==
  IF tokens = <<>> THEN [exc |-> None, paths |-> <<>>]
  ELSE append_resolved(normalize_path(tokens[1], Some(cwd), process_cwd))

_resolve_candidate_paths(arg, cwd, process_cwd) ==
  resolve_tokens(_extract_path_tokens(arg), cwd, process_cwd)

\* one turn of the loop of extract_candidate_paths on arg, with the flag
\* expect_option_value_path as it stands: the text the turn hands to
\* _resolve_candidate_paths, Nothing when it hands none
turn_value(arg, expect) ==
  IF arg = <<>> THEN Nothing
  ELSE IF expect THEN Some(arg)
  ELSE IF ~startswith(arg, <<"-">>) THEN Some(arg)
  ELSE IF ~contains(arg, "=") THEN Nothing
  ELSE IF \/ _option_expects_path(left_of(arg, "="))
          \/ _looks_like_path(right_of(arg, "="))
    THEN Some(right_of(arg, "="))
  ELSE Nothing

\* the flag expect_option_value_path after the turn
turn_expect(arg, expect) ==
  IF arg = <<>> THEN expect
  ELSE IF expect THEN FALSE
  ELSE IF ~startswith(arg, <<"-">>) THEN FALSE
  ELSE IF contains(arg, "=") THEN FALSE
  ELSE _option_expects_path(arg)

\* paths.extend(_resolve_candidate_paths(value, cwd)) for the value of a turn
turn_paths(value, cwd, process_cwd) ==
  IF value = Nothing THEN [exc |-> None, paths |-> <<>>]
  ELSE _resolve_candidate_paths(value[1], cwd, process_cwd)

\* paths.extend(r), or the exception that leaves the loop
extend(found, r) ==
  IF r.exc # None THEN [exc |-> r.exc, paths |-> <<>>]
  ELSE [exc |-> None, paths |-> found.paths \o r.paths]

\* the loop of extract_candidate_paths from argument i on, with the paths found
\* so far and the flag expect_option_value_path
RECURSIVE extract_loop(_, _, _, _, _, _)
extract_loop(args, i, expect, found, cwd, process_cwd) ==
  IF found.exc # None \/ i > Len(args) THEN found
  ELSE extract_loop(args, i + 1, turn_expect(args[i], expect),
                    extend(found, turn_paths(turn_value(args[i], expect), cwd, process_cwd)),
                    cwd, process_cwd)

extract_candidate_paths(args, cwd, process_cwd) ==
  extract_loop(args, 1, FALSE, [exc |-> None, paths |-> <<>>], cwd, process_cwd)

\* the Path returned by resolve_executable from the result n of normalize_path
some_path(n) ==
  [exc |-> n.exc, path |-> IF n.exc = None THEN Some(n.path) ELSE Nothing]

\* resolve_executable(binary): which is what shutil.which finds for a bare name
resolve_executable(binary, which, process_cwd) ==
  IF ~contains(binary, "/") /\ which = Nothing THEN [exc |-> None, path |-> Nothing]
  ELSE some_path(normalize_path(IF contains(binary, "/") THEN binary ELSE which[1],
                                Nothing, process_cwd))

\* _add_blocked_candidate over a list of candidates
_add_blocked_candidates(blocked, candidates, policy, process_cwd) ==
  blocked \cup { path_str(candidates[i]) : i \in
                   { j \in 1..Len(candidates) : is_denied(policy, candidates[j], process_cwd) } }

\* the number of leading environment assignments of a command
RECURSIVE leading_assignments(_)
leading_assignments(command) ==
  IF command = <<>> \/ ~_is_env_assignment(command[1]) THEN 0
  ELSE 1 + leading_assignments(Tail(command))

\* the body of the first loop of find_blocked_paths for the candidates r of
\* one assignment
add_assignment(found, r, policy, process_cwd) ==
  IF r.exc # None THEN [exc |-> r.exc, blocked |-> {}]
  ELSE [exc |-> None,
        blocked |-> _add_blocked_candidates(found.blocked, r.paths, policy, process_cwd)]

\* the first loop of find_blocked_paths over the leading assignments i..k
RECURSIVE assignment_loop(_, _, _, _, _, _)
assignment_loop(command, i, k, found, cwd_policy, process_cwd) ==
  IF found.exc # None \/ i > k THEN found
  ELSE assignment_loop(command, i + 1, k,
         add_assignment(found,
                        _resolve_candidate_paths(command[i], cwd_policy.cwd, process_cwd),
                        cwd_policy.policy, process_cwd),
         cwd_policy, process_cwd)

\* the rest of find_blocked_paths after the first loop: envs is what the loop
\* left, exe the resolved executable, rest the candidates of the arguments;
\* the exceptions surface in the order of the code
blocked_of(envs, exe, rest, policy, process_cwd) ==
  IF envs.exc # None THEN [exc |-> envs.exc, blocked |-> <<>>]
  ELSE IF exe.exc # None THEN [exc |-> exe.exc, blocked |-> <<>>]
  ELSE IF rest.exc # None THEN [exc |-> rest.exc, blocked |-> <<>>]
  ELSE [exc |-> None,
        blocked |-> sorted(_add_blocked_candidates(envs.blocked, exe.path \o rest.paths,
                                                   policy, process_cwd))]

\* find_blocked_paths with k leading assignments: the executable is token
\* k + 1 when there is one, and args_start stays 1 (the second token) when
\* there is none
scan_command(command, k, cwd, policy, which, process_cwd) ==
  blocked_of(
    assignment_loop(command, 1, k, [exc |-> None, blocked |-> {}],
                    [cwd |-> cwd, policy |-> policy], process_cwd),
    IF k < Len(command) THEN resolve_executable(command[k + 1], which, process_cwd)
    ELSE [exc |-> None, path |-> Nothing],
    extract_candidate_paths(
      SubSeq(command, IF k < Len(command) THEN k + 2 ELSE 2, Len(command)),
      cwd, process_cwd),
    policy, process_cwd)

find_blocked_paths(command, cwd, policy, which, process_cwd) ==
  scan_command(command, leading_assignments(command), cwd, policy, which, process_cwd)

(* --------------------------- the run gate ---------------------------- *)

TEST_MODE_ENV == "AGENT_LOCKER_TEST_MODE"

VARIABLES
  pc,          \* where the current call of CommandRunner.run stands
  request,     \* the RunRequest of the call
  policy,      \* the Policy of the call
  env,         \* the process environment: os.environ, PATH lookup, Path.cwd()
  executor,    \* the executor the CommandRunner was built with
  calls,       \* the invocations of the executor, in order
  outcome,     \* what the executor did: a CompletedProcess or an exception
  child,       \* the process spawned by default_executor
  result,      \* the RunResult returned
  exception    \* the exception that left run, None when it returned

gateVars ==
  <<pc, request, policy, env, executor, calls, outcome, child, result, exception>>

\* _result(...) with its defaults; a message is the sequence of the parts of its
\* text, the formatted values among them
_result(reason, message, executed, exit_code, stdout, stderr, blocked_paths) ==
  [ executed |-> executed, exit_code |-> exit_code, reason |-> reason,
    message |-> message, stdout |-> stdout, stderr |-> stderr,
    blocked_paths |-> blocked_paths ]

NoRequest ==
  [command |-> <<>>, cwd |-> <<>>, execute |-> FALSE, timeout_sec |-> Nothing]

NoPolicy == [enabled |-> FALSE, deny_paths |-> <<>>]

NoEnv == [test_mode |-> None, which |-> Nothing, process_cwd |-> <<>>]

\* timeout is exc.timeout of a TimeoutExpired, text is str(exc) of an OSError
NoOutcome ==
  [kind |-> None, returncode |-> 0, stdout |-> None, stderr |-> None,
   timeout |-> 0, text |-> ""]

NoResult == _result(None, <<>>, FALSE, 0, "", "", <<>>)

\* x or ""
or_empty(x) == IF x = None THEN "" ELSE x

\* CommandRunner.run from the deny check to the call of the executor, found
\* being the outcome of find_blocked_paths
gate_after_scan(req, e, found) ==
  IF found.exc # None
    THEN [kind |-> "raise", exc |-> found.exc, result |-> NoResult]
  ELSE IF found.blocked # <<>>
    THEN [kind |-> "return", exc |-> None,
          result |-> _result("blocked_by_policy", <<"Command blocked by deny policy.">>,
                             FALSE, 25, "", "", found.blocked)]
  ELSE IF ~req.execute
    THEN [kind |-> "return", exc |-> None,
          result |-> _result("dry_run", <<"Dry run only. Use --execute to allow execution.">>,
                             FALSE, 0, "", "", <<>>)]
  ELSE IF e.test_mode = "1"
    THEN [kind |-> "return", exc |-> None,
          result |-> _result("test_mode_block",
                             <<"Execution blocked because ", TEST_MODE_ENV, "=1.">>,
                             FALSE, 26, "", "", <<>>)]
  ELSE [kind |-> "invoke", exc |-> None, result |-> NoResult]

\* CommandRunner.run up to the call of the executor: a RunResult, an exception
\* of find_blocked_paths, or the decision to invoke the executor
run_gate(req, pol, e) ==
  IF req.command = <<>>
    THEN [kind |-> "return", exc |-> None,
          result |-> _result("invalid_request", <<"Command is required.">>, FALSE, 2, "", "", <<>>)]
  ELSE gate_after_scan(req, e,
         find_blocked_paths(req.command, req.cwd, pol, e.which, e.process_cwd))

\* the except clause of TimeoutExpired without the captured streams
run_finish_dropping_streams(o) ==
  IF o.kind = "FileNotFoundError"
    THEN [kind |-> "return", exc |-> None,
          result |-> _result("command_not_found", <<o.text>>, FALSE, 127,
                             "", "", <<>>)]
  ELSE IF o.kind = "TimeoutExpired"
    THEN [kind |-> "return", exc |-> None,
          result |-> _result("timeout", <<"Command timed out after ", o.timeout, " seconds.">>, TRUE, 124, "", "", <<>>)]
  ELSE IF o.kind = "CompletedProcess"
    THEN [kind |-> "return", exc |-> None,
          result |-> _result("executed", <<"Command executed.">>, TRUE, o.returncode,
                             or_empty(o.stdout), or_empty(o.stderr), <<>>)]
  ELSE [kind |-> "raise", exc |-> o.kind, result |-> NoResult]

\* CommandRunner.run after the executor: the except clauses and the final return
run_finish(o) ==
  IF o.kind = "FileNotFoundError"
    THEN [kind |-> "return", exc |-> None,
          result |-> _result("command_not_found", <<o.text>>, FALSE, 127,
                             "", "", <<>>)]
  ELSE IF o.kind = "TimeoutExpired"
    THEN [kind |-> "return", exc |-> None,
          result |-> _result("timeout", <<"Command timed out after ", o.timeout, " seconds.">>, TRUE, 124,
                             or_empty(o.stdout), or_empty(o.stderr), <<>>)]
  ELSE IF o.kind = "CompletedProcess"
    THEN [kind |-> "return", exc |-> None,
          result |-> _result("executed", <<"Command executed.">>, TRUE, o.returncode,
                             or_empty(o.stdout), or_empty(o.stderr), <<>>)]
  ELSE [kind |-> "raise", exc |-> o.kind, result |-> NoResult]

(* inputs *)

Tokens ==
  { <<"c", "a", "t">>, <<"/", "s", "/", "k">>, <<"/", "s", "2", "/", "k">>, <<".", ".", "/", "b", "/", "k">>, <<"A", "=", "/", "b", "/", "k">>, <<"-", "o">>, <<"~", "u", "/", "x">> }

RECURSIVE SeqsUpTo(_, _)
SeqsUpTo(set, n) ==
  IF n = 0 THEN {<<>>}
  ELSE LET shorter == SeqsUpTo(set, n - 1)
       IN  shorter \cup { Append(s, x) : s \in { t \in shorter : Len(t) = n - 1 }, x \in set }

Commands == SeqsUpTo(Tokens, MaxCmdLen)

Dirs == { << <<"p">> >>, << <<"p">>, <<"q">> >> }

TimeoutSec == 5

Requests ==
  [ command : Commands, cwd : Dirs, execute : BOOLEAN,
    timeout_sec : {Nothing, Some(TimeoutSec)} ]

DenyLists == { <<>>, << << <<"s">> >>, << <<"b">> >> >> }

Policies == [enabled : BOOLEAN, deny_paths : DenyLists]

Envs ==
  [ test_mode : {None, "1"}, which : {Nothing, Some(<<"/", "s", "/", "c">>)}, process_cwd : Dirs ]

Executors == {"default_executor", "injected"}

ReturnCodes == {0, 3}

\* what a child wrote before it ended or was interrupted: (stdout, stderr)
Streams == { <<None, None>>, <<"out", "err">> }


(* --------------------------- the audit log --------------------------- *)

\* concurrent callers of write_audit_log on one log path
NumWriters == 2

\* calls of write_audit_log started in one behaviour
MaxEntries == 4

\* the longest line of an entry, in bytes
MaxLineLen == 2

\* the rotation threshold and the number of backups in force: the module
\* attributes MAX_AUDIT_BYTES and ROTATED_AUDIT_FILES, scaled down
MaxBytes == 2

Keep == 2

Writers == 1..NumWriters

VARIABLES
  max_bytes,     \* MAX_AUDIT_BYTES
  keep,          \* ROTATED_AUDIT_FILES
  wpc,           \* where each caller of write_audit_log stands
  entry,         \* the entry each caller writes: its number and line length
  lock_holders,  \* the callers holding flock on <logpath>.lock
  names,         \* directory: 0 is the live file, i is <name>.i; 0 = no file
  inodes,        \* the content of every file ever created, by inode number
  fd,            \* the inode each caller has open for append, 0 = none
  idx,           \* the loop index of _rotate_if_needed of each caller
  started,       \* calls of write_audit_log begun so far
  completed,     \* the entries whose call returned normally
  failed,        \* the entries whose call raised, with the place of the error
  dropped,       \* the lines that were in a backup removed by retention
  written,       \* the entries in the order of their os.write
  snap           \* what each caller found at its size check: the file contents

auditVars ==
  << max_bytes, keep, wpc, entry, lock_holders, names, inodes, fd, idx,
     started, completed, failed, dropped, written, snap >>

NoEntry == [id |-> 0, size |-> 0]

\* the bytes of the line of an entry: json.dumps(entry) + "\n", encoded
line_of(e) == [k \in 1..e.size |-> <<e.id, k>>]

\* path.exists() and path.stat().st_size of a name
exists(name) == names[name] # 0

st_size(name) == Len(inodes[names[name]])

\* the content of every name, Nothing for a name that has no file
contents_by_name == [n \in DOMAIN names |-> IF exists(n) THEN Some(inodes[names[n]]) ELSE Nothing]

NoSnap == <<>>

\* the entries whose bytes are in a file content
entries_in(content) == { content[i][1] : i \in 1..Len(content) }

\* a lock that any number of callers may hold at once
flock_shared(holders) == TRUE

\* fcntl.flock(fd, LOCK_EX) returns once no other open file description holds it
flock_exclusive(holders) == holders = {}


(* ------------- the policy document and the command line -------------- *)

\* calls of main and steps of the window in one behaviour
MaxInvocations == 2

VARIABLES
  document,     \* the persisted policy document, the file at args.policy
  audit_log,    \* the entries that main has appended to the audit log, in order
  gui_policy,   \* self.policy of the window, Nothing while no window is open
  gui_found,    \* the policy file as it was when the window was opened
  invocations,  \* calls of main and steps of the window so far
  last          \* the last call: its arguments, what it called and how it ended

cliVars == <<document, audit_log, gui_policy, gui_found, invocations, last>>

\* a value of the JSON document by its type; a key that is absent is "missing"
JsonBool(b) == [type |-> "bool", bool |-> b, text |-> <<>>]

JsonString(s) == [type |-> "str", bool |-> FALSE, text |-> s]

JsonNumber(digits) == [type |-> "int", bool |-> FALSE, text |-> digits]

JsonMissing == [type |-> "missing", bool |-> FALSE, text |-> <<>>]

\* a policy file that holds a JSON object: its key enabled, and its key
\* deny_paths, an array of values or a value that is no array
JsonObject(enabled, deny_is_list, deny_values) ==
  [ kind |-> "object", enabled |-> enabled, deny_is_list |-> deny_is_list,
    deny_paths |-> deny_values ]

\* no file at the path of the policy
NoDocument ==
  [kind |-> "absent", enabled |-> JsonMissing, deny_is_list |-> FALSE, deny_paths |-> <<>>]

\* a file of size 0
EmptyDocument ==
  [kind |-> "empty", enabled |-> JsonMissing, deny_is_list |-> FALSE, deny_paths |-> <<>>]

\* the strings of a list of paths and the JSON strings of a list of strings
strs_of(paths) == [i \in 1..Len(paths) |-> path_str(paths[i])]

json_strings(strs) == [i \in 1..Len(strs) |-> JsonString(strs[i])]

\* the loop of Policy.from_dict over deny_values
RECURSIVE deny_loop(_, _, _)

deny_append(normalized, rest, deny_paths_list, process_cwd) ==
  IF normalized.exc # None
    THEN [exc |-> normalized.exc, policy |-> NoPolicy]
    ELSE deny_loop(rest, Append(deny_paths_list, normalized.path), process_cwd)

deny_loop(deny_values, deny_paths_list, process_cwd) ==
  IF deny_values = <<>>
    THEN [exc |-> None, policy |-> [enabled |-> TRUE, deny_paths |-> deny_paths_list]]
  ELSE IF deny_values[1].type # "str"
    THEN [exc |-> "PolicyError", policy |-> NoPolicy]
  ELSE deny_append(normalize_path(deny_values[1].text, Nothing, process_cwd),
                   Tail(deny_values), deny_paths_list, process_cwd)

\* cls(enabled=enabled, deny_paths=deny_paths) once the loop has ended
with_enabled(enabled, loaded) ==
  IF loaded.exc # None THEN loaded
  ELSE [exc |-> None, policy |-> [enabled |-> enabled, deny_paths |-> loaded.policy.deny_paths]]

\* the checks of Policy.from_dict on enabled, the value of data.get("enabled", True)
from_dict_checked(enabled, data, process_cwd) ==
  IF enabled.type # "bool" THEN [exc |-> "PolicyError", policy |-> NoPolicy]
  ELSE IF ~data.deny_is_list THEN [exc |-> "PolicyError", policy |-> NoPolicy]
  ELSE with_enabled(enabled.bool, deny_loop(data.deny_paths, <<>>, process_cwd))

\* Policy.from_dict(data) without base_dir: a Policy or an exception
from_dict(data, process_cwd) ==
  from_dict_checked(IF data.enabled.type = "missing" THEN JsonBool(TRUE) ELSE data.enabled,
                    data, process_cwd)

\* Policy.to_dict
to_dict(p) == JsonObject(JsonBool(p.enabled), TRUE, json_strings(strs_of(p.deny_paths)))

\* load_policy(path): json.loads of an empty file raises JSONDecodeError
load_policy(doc, process_cwd) ==
  IF doc.kind = "absent" THEN [exc |-> "PolicyError", policy |-> NoPolicy]
  ELSE IF doc.kind = "empty" THEN [exc |-> "JSONDecodeError", policy |-> NoPolicy]
  ELSE from_dict(doc, process_cwd)

\* save_policy(path, policy): the document that the file holds afterwards
save_policy(p) == to_dict(p)

DEFAULT_DENY_PATHS ==
  << <<"~", "/", ".", "s", "s", "h">>, <<"~", "/", ".", "a", "w", "s">>, <<"~", "/", ".", "g", "n", "u", "p", "g">>, <<"~", "/", "L", "i", "b", "r", "a", "r", "y", "/", "K", "e", "y", "c", "h", "a", "i", "n", "s">> >>

default_policy_data == JsonObject(JsonBool(TRUE), TRUE, json_strings(DEFAULT_DENY_PATHS))

\* write_default_policy(path, overwrite): a file that exists and is not empty
\* is kept unless overwrite is set
write_default_policy(doc, overwrite) ==
  IF doc.kind = "object" /\ ~overwrite THEN doc ELSE default_policy_data

\* the directory of the policy file, args.policy.parent
PolicyDir == << <<"c">> >>

\* save_policy(path, updated) for the outcome of Policy.from_dict: nothing is
\* written when from_dict raised
save_loaded(loaded, doc) ==
  [ exc |-> loaded.exc,
    document |-> IF loaded.exc # None THEN doc ELSE save_policy(loaded.policy) ]

\* Policy.from_dict({"enabled": ..., "deny_paths": sorted(current)}) and
\* save_policy: the document written, or the exception of from_dict
save_sorted(enabled, current, process_cwd, doc) ==
  save_loaded(from_dict(JsonObject(JsonBool(enabled), TRUE, json_strings(sorted(current))),
                        process_cwd),
              doc)

\* the add and remove branches of handle_policy_command, normalized being
\* normalize_path(raw, base_dir=base_dir)
policy_edit(p, policy_cmd, normalized, process_cwd, doc) ==
  IF normalized.exc # None THEN [exc |-> normalized.exc, document |-> doc]
  ELSE save_sorted(p.enabled,
                   IF policy_cmd = "add"
                     THEN Range(strs_of(p.deny_paths)) \cup {path_str(normalized.path)}
                     ELSE Range(strs_of(p.deny_paths)) \ {path_str(normalized.path)},
                   process_cwd, doc)

\* handle_policy_command whose on and off write an empty list of deny paths
handle_policy_command_dropping_paths(p, policy_cmd, raw, process_cwd, doc) ==
  IF policy_cmd \in {"status", "list"} THEN [exc |-> None, document |-> doc]
  ELSE IF policy_cmd \in {"on", "off"}
    THEN [exc |-> None,
          document |-> save_policy([enabled |-> policy_cmd = "on", deny_paths |-> <<>>])]
  ELSE policy_edit(p, policy_cmd, normalize_path(raw, Some(PolicyDir), process_cwd),
                   process_cwd, doc)

\* handle_policy_command: the document afterwards, or the exception that
\* leaves it; status and list write nothing
handle_policy_command(p, policy_cmd, raw, process_cwd, doc) ==
  IF policy_cmd \in {"status", "list"} THEN [exc |-> None, document |-> doc]
  ELSE IF policy_cmd \in {"on", "off"}
    THEN [exc |-> None,
          document |-> save_policy([enabled |-> policy_cmd = "on", deny_paths |-> p.deny_paths])]
  ELSE policy_edit(p, policy_cmd, normalize_path(raw, Some(PolicyDir), process_cwd),
                   process_cwd, doc)

\* the directories and the files that exist
ExistingDirs == Dirs

ExistingFiles == { << <<"f">> >> }

\* the entry of the audit log that main builds from the result of the gate;
\* the timestamp and command_text are left out
audit_entry(command, cwd, r) ==
  [ command |-> command, cwd |-> path_str(cwd), executed |-> r.executed,
    reason |-> r.reason, exit_code |-> r.exit_code, blocked_paths |-> r.blocked_paths ]

(* the window *)

\* AgentLockerWindow.__init__, lines 129-131: protection is switched on and
\* saved when the loaded policy has it off
gui_enabled(loaded, doc) ==
  IF loaded.exc # None THEN [exc |-> loaded.exc, document |-> doc, policy |-> Nothing]
  ELSE IF ~loaded.policy.enabled
    THEN [exc |-> None,
          document |-> save_policy([enabled |-> TRUE, deny_paths |-> loaded.policy.deny_paths]),
          policy |-> Some([enabled |-> TRUE, deny_paths |-> loaded.policy.deny_paths])]
  ELSE [exc |-> None, document |-> doc, policy |-> Some(loaded.policy)]

\* the except clause of _load_policy, lines 156-158, for the file just written
gui_reloaded(doc, process_cwd) == gui_enabled(load_policy(doc, process_cwd), doc)

\* _load_policy, lines 153-158: on PolicyError the default policy is written
\* over the file and loaded
gui_load_policy(loaded, doc, process_cwd) ==
  IF loaded.exc = "PolicyError"
    THEN gui_reloaded(write_default_policy(doc, TRUE), process_cwd)
    ELSE gui_enabled(loaded, doc)

\* line 128 for the file that line 127 left
gui_loaded(doc, process_cwd) == gui_load_policy(load_policy(doc, process_cwd), doc, process_cwd)

\* AgentLockerWindow.__init__, lines 127-131
gui_open(doc, process_cwd) == gui_loaded(write_default_policy(doc, FALSE), process_cwd)

\* add_path, lines 2289-2295: self.policy is the outcome of Policy.from_dict
\* and _mark_policy_dirty saves it
gui_saved(loaded, p, doc) ==
  IF loaded.exc # None THEN [exc |-> loaded.exc, document |-> doc, policy |-> Some(p)]
  ELSE [exc |-> None, document |-> save_policy(loaded.policy), policy |-> Some(loaded.policy)]

\* add_path, lines 2286-2288, normalized being normalize_path(raw)
gui_add_normalized(normalized, p, process_cwd, doc) ==
  IF normalized.exc # None THEN [exc |-> normalized.exc, document |-> doc, policy |-> Some(p)]
  ELSE gui_saved(
         from_dict(JsonObject(JsonBool(p.enabled), TRUE,
                     json_strings(sorted(Range(strs_of(p.deny_paths))
                                           \cup {path_str(normalized.path)}))),
                   process_cwd),
         p, doc)

\* add_path of the window
gui_add_path(p, raw, process_cwd, doc) ==
  gui_add_normalized(normalize_path(raw, Nothing, process_cwd), p, process_cwd, doc)

\* _run_command, lines 2513-2515: protection is switched on and saved before
\* a command is generated
gui_protected(p, doc) ==
  IF p.enabled THEN [policy |-> p, document |-> doc]
  ELSE [policy |-> [enabled |-> TRUE, deny_paths |-> p.deny_paths],
        document |-> save_policy([enabled |-> TRUE, deny_paths |-> p.deny_paths])]

\* the entry "manual_command_generated" of _run_command, lines 2551-2563, as
\* the decision that the window shows
manual_command_generated == _result("manual_command_generated", <<>>, FALSE, 0, "", "", <<>>)

(* ------ normalize_path, the scanner and the policy file, step by step ------ *)

\* longest argument list handed to extract_candidate_paths
MaxArgs == 3

\* processes that run a policy command at the same time
NumProcs == 2

\* write(2) calls that the text of a policy document takes
Chunks == 2

VARIABLES
  norm_in,      \* a path and the directories of two successive calls of normalize_path
  norm_out,     \* the outcomes of the calls made so far, in order
  scan_args,    \* args, the argument list of a call of extract_candidate_paths
  scan_cwd,     \* its cwd
  scan_pc,      \* where the call stands: "idle", "loop", "returned", "raised"
  arg_i,        \* the index of the argument of the next turn of the loop
  expect_option_value_path,
  scan_paths,   \* paths, the candidates found so far
  turn,         \* the last turn of the loop: its argument, the flag before it, what it added
  policy_file,  \* the bytes of the policy file: the chunks of documents, in order
  proc          \* the processes that run a policy command on that file

normVars == <<norm_in, norm_out>>

scanVars ==
  <<scan_args, scan_cwd, scan_pc, arg_i, expect_option_value_path, scan_paths, turn>>

fileVars == <<policy_file, proc>>

pathVars == <<normVars, scanVars, fileVars>>

NoNormIn == [path |-> <<>>, base_dir |-> Nothing, again_base_dir |-> Nothing,
             process_cwd |-> <<>>, again_process_cwd |-> <<>>]

NoTurn == [arg |-> <<>>, expected |-> FALSE, exc |-> None, added |-> <<>>]

\* no call of normalize_path under way
NormIdle ==
  /\ norm_in = NoNormIn
  /\ norm_out = <<>>

\* no call of extract_candidate_paths under way
ScanIdle ==
  /\ scan_args = <<>>
  /\ scan_cwd = <<>>
  /\ scan_pc = "idle"
  /\ arg_i = 1
  /\ expect_option_value_path = FALSE
  /\ scan_paths = <<>>
  /\ turn = NoTurn

Procs == 1..NumProcs

\* a process before its command: pc is "idle", then "saving" once the policy
\* is loaded and the new document computed, "opened" while the file is open
\* for writing, and "done", "raised" or "failed" at the end
NoProc ==
  [ pc |-> "idle", policy_cmd |-> None, seen |-> None, writing |-> NoDocument,
    previous |-> NoDocument, chunks |-> 0, opened |-> FALSE ]

\* no policy command under way
FileIdle ==
  /\ policy_file = <<>>
  /\ proc = [q \in Procs |-> NoProc]

PathsIdle == NormIdle /\ ScanIdle /\ FileIdle

(* ------------------- actions of the command line --------------------- *)

\* what a call of main or a step of the window did: the exit code returned
\* or the exception that left it, the calls of CommandRunner.run and of the
\* executor, the RunResult of the gate, and whether the audit write failed
Outcome(returned, exc, gate_calls, executor_calls, has_result, r, audit_failed, appended) ==
  [ returned |-> returned, exc |-> exc, gate_calls |-> gate_calls,
    executor_calls |-> executor_calls, has_result |-> has_result, result |-> r,
    audit_failed |-> audit_failed, appended |-> appended ]

Returns(code) == Outcome(Some(code), None, 0, 0, FALSE, NoResult, FALSE, <<>>)

Raises(exc) == Outcome(Nothing, exc, 0, 0, FALSE, NoResult, FALSE, <<>>)

NoLast ==
  [ op |-> None, command |-> <<>>, cwd |-> <<>>, execute |-> FALSE, env |-> NoEnv,
    policy_cmd |-> None, raw |-> <<>>, out |-> Returns(0) ]

\* what the executor does when the gate invokes it
CliOutcomes ==
  { [kind |-> "CompletedProcess", returncode |-> 3, stdout |-> "out", stderr |-> None,
     timeout |-> 0, text |-> ""],
    [kind |-> "FileNotFoundError", returncode |-> 0, stdout |-> None, stderr |-> None,
     timeout |-> 0, text |-> "[Errno 2] No such file or directory"],
    [kind |-> "PermissionError", returncode |-> 0, stdout |-> None, stderr |-> None,
     timeout |-> 0, text |-> "[Errno 13] Permission denied"] }

\* an audit failure that main takes for a written entry
after_audit_swallowing(r, made, executor_calls, audit_fails) ==
  Outcome(Some(r.exit_code), None, 1, executor_calls, TRUE, r, audit_fails,
          IF audit_fails THEN <<>> ELSE <<made>>)

\* main, lines 106-127: write_audit_log raises or appends the entry, then the
\* result is printed and its exit code returned
after_audit(r, made, executor_calls, audit_fails) ==
  IF audit_fails
    THEN Outcome(Nothing, "OSError", 1, executor_calls, TRUE, r, TRUE, <<>>)
    ELSE Outcome(Some(r.exit_code), None, 1, executor_calls, TRUE, r, FALSE, <<made>>)

\* main, line 105 onwards: an exception of CommandRunner.run leaves main;
\* otherwise the audit write succeeds or fails
run_audited(g, executor_calls, command, cwd) ==
  IF g.kind = "raise"
    THEN { Outcome(Nothing, g.exc, 1, executor_calls, FALSE, NoResult, FALSE, <<>>) }
    ELSE { after_audit(g.result, audit_entry(command, cwd, g.result), executor_calls,
                       audit_fails) : audit_fails \in BOOLEAN }

\* CommandRunner.run: the gate, and the executor when the gate invokes it, with
\* every outcome of the executor
run_decided(gate, command, cwd) ==
  IF gate.kind = "invoke"
    THEN UNION { run_audited(run_finish(o), 1, command, cwd) : o \in CliOutcomes }
    ELSE run_audited(gate, 0, command, cwd)

\* main, lines 92-105: the checks of the working directory and the request
run_in(p, cwd, command, execute, e) ==
  IF cwd.exc # None THEN { Raises(cwd.exc) }
  ELSE IF cwd.path \notin ExistingDirs \cup ExistingFiles THEN { Returns(2) }
  ELSE IF cwd.path \notin ExistingDirs THEN { Returns(2) }
  ELSE run_decided(
         run_gate([command |-> command, cwd |-> cwd.path, execute |-> execute,
                   timeout_sec |-> Nothing], p, e),
         command, cwd.path)

\* main, lines 71-75 and 84-90, for the run subcommand
run_loaded(loaded, command, cwd_arg, execute, e) ==
  IF loaded.exc = "PolicyError" THEN { Returns(1) }
  ELSE IF loaded.exc # None THEN { Raises(loaded.exc) }
  ELSE IF command = <<>> THEN { Returns(2) }
  ELSE run_in(loaded.policy, normalize_path(cwd_arg, Nothing, e.process_cwd),
              command, execute, e)

\* main for the run subcommand: the ways in which the call can end, one for
\* each behaviour of the executor and of the audit write
main_run(doc, command, cwd_arg, execute, e) ==
  run_loaded(load_policy(doc, e.process_cwd), command, cwd_arg, execute, e)

\* main for the show subcommand, lines 71-79
main_show(loaded) ==
  IF loaded.exc = "PolicyError" THEN Returns(1)
  ELSE IF loaded.exc # None THEN Raises(loaded.exc)
  ELSE Returns(0)

\* main, line 82: the exit code of handle_policy_command is 0
policy_handled(handled) == [exc |-> handled.exc, code |-> 0, document |-> handled.document]

\* main for the policy subcommand, lines 71-75 and 81-82
main_policy(loaded, policy_cmd, raw, process_cwd, doc) ==
  IF loaded.exc = "PolicyError" THEN [exc |-> None, code |-> 1, document |-> doc]
  ELSE IF loaded.exc # None THEN [exc |-> loaded.exc, code |-> 0, document |-> doc]
  ELSE policy_handled(handle_policy_command(loaded.policy, policy_cmd, raw, process_cwd, doc))

(* inputs *)

CliCommands ==
  { <<>>, << <<"c", "a", "t">> >>, << <<"c", "a", "t">>, <<"/", "s", "/", "k">> >>, << <<"/", "s", "/", "k">>, <<"~", "u", "/", "x">> >>,
    << <<"c", "a", "t">>, <<".", ".", "/", "b", "/", "k">> >> }

CwdArgs == { <<"/", "p">>, <<"/", "m">>, <<"/", "f">>, <<"~", "u">> }

PolicyArgs == { <<"/", "s">>, <<"/", "b">>, <<"b">>, <<"~", "u", "/", "x">> }

PolicyCmds == {"status", "list", "on", "off", "add", "remove"}

CliEnvs == { e \in Envs : e.which = Nothing /\ e.process_cwd = << <<"p">> >> }

\* the environment of the calls that run no command
PolicyEnvs == { e \in CliEnvs : e.test_mode = None }

\* the policy files that main may find: none, an empty one, the default one,
\* one edited by hand, and malformed ones
InitialDocuments ==
  { NoDocument,
    EmptyDocument,
    default_policy_data,
    JsonObject(JsonBool(TRUE), TRUE, json_strings(<< <<"/", "s">>, <<"/", "a">> >>)),
    JsonObject(JsonBool(FALSE), TRUE, json_strings(<< <<"/", "s">> >>)),
    JsonObject(JsonMissing, TRUE, json_strings(<< <<"/", "b", "/", ".", ".", "/", "s">> >>)),
    JsonObject(JsonString(<<"y", "e", "s">>), TRUE, json_strings(<< <<"/", "s">> >>)),
    JsonObject(JsonBool(TRUE), FALSE, <<>>),
    JsonObject(JsonBool(TRUE), TRUE, << JsonString(<<"/", "s">>), JsonNumber(<<"5">>) >>),
    JsonObject(JsonBool(TRUE), TRUE, << JsonString(<<"~", "u", "/", "x">>), JsonNumber(<<"5">>) >>) }

CliStart(doc) ==
  /\ document = doc
  /\ audit_log = <<>>
  /\ gui_policy = Nothing
  /\ gui_found = Nothing
  /\ invocations = 0
  /\ last = NoLast

\* agent-locker init [--force], lines 63-66
CliInitCommand(force) ==
  /\ invocations < MaxInvocations
  /\ invocations' = invocations + 1
  /\ document' = write_default_policy(document, force)
  /\ last' = [NoLast EXCEPT !.op = "init"]
  /\ UNCHANGED <<audit_log, gui_policy, gui_found>>
  /\ UNCHANGED <<gateVars, auditVars, pathVars>>

\* agent-locker show
CliShow(e) ==
  /\ invocations < MaxInvocations
  /\ invocations' = invocations + 1
  /\ last' = [NoLast EXCEPT !.op = "show", !.env = e,
                            !.out = main_show(load_policy(document, e.process_cwd))]
  /\ UNCHANGED <<document, audit_log, gui_policy, gui_found>>
  /\ UNCHANGED <<gateVars, auditVars, pathVars>>

\* what main_policy leaves: the document, and the exit code or the exception
PolicyDone(done, policy_cmd, raw, e) ==
  /\ document' = done.document
  /\ last' = [NoLast EXCEPT !.op = "policy", !.env = e, !.policy_cmd = policy_cmd,
                            !.raw = raw,
                            !.out = IF done.exc # None THEN Raises(done.exc)
                                    ELSE Returns(done.code)]

\* agent-locker policy status | list | on | off | add PATH | remove PATH
CliPolicy(policy_cmd, raw, e) ==
  /\ invocations < MaxInvocations
  /\ invocations' = invocations + 1
  /\ PolicyDone(main_policy(load_policy(document, e.process_cwd), policy_cmd, raw,
                            e.process_cwd, document),
                policy_cmd, raw, e)
  /\ UNCHANGED <<audit_log, gui_policy, gui_found>>
  /\ UNCHANGED <<gateVars, auditVars, pathVars>>

\* a call of main that leaves the audit log as it was
RunDoneWithoutAudit(out, command, cwd_arg, execute, e) ==
  /\ audit_log' = audit_log
  /\ last' = [NoLast EXCEPT !.op = "run", !.command = command, !.cwd = cwd_arg,
                            !.execute = execute, !.env = e, !.out = out]

\* what main_run leaves: the entry appended to the audit log and the outcome
RunDone(out, command, cwd_arg, execute, e) ==
  /\ audit_log' = audit_log \o out.appended
  /\ last' = [NoLast EXCEPT !.op = "run", !.command = command, !.cwd = cwd_arg,
                            !.execute = execute, !.env = e, !.out = out]

\* agent-locker run [--execute] [--cwd DIR] -- COMMAND...
CliRun(command, cwd_arg, execute, e) ==
  /\ invocations < MaxInvocations
  /\ invocations' = invocations + 1
  /\ \E out \in main_run(document, command, cwd_arg, execute, e) :
       RunDone(out, command, cwd_arg, execute, e)
  /\ UNCHANGED <<document, gui_policy, gui_found>>
  /\ UNCHANGED <<gateVars, auditVars, pathVars>>

\* what a step of the window leaves
GuiDone(done, op, raw, e) ==
  /\ document' = done.document
  /\ gui_policy' = done.policy
  /\ last' = [NoLast EXCEPT !.op = op, !.env = e, !.raw = raw,
                            !.out = IF done.exc # None THEN Raises(done.exc) ELSE Returns(0)]

\* agent-locker gui: the window is built
GuiOpen(e) ==
  /\ gui_policy = Nothing
  /\ invocations < MaxInvocations
  /\ invocations' = invocations + 1
  /\ GuiDone(gui_open(document, e.process_cwd), "gui_open", <<>>, e)
  /\ gui_found' = Some(document)
  /\ UNCHANGED audit_log
  /\ UNCHANGED <<gateVars, auditVars, pathVars>>

\* the user adds a path in the window
GuiAddPath(raw, e) ==
  /\ gui_policy # Nothing
  /\ invocations < MaxInvocations
  /\ invocations' = invocations + 1
  /\ GuiDone(gui_add_path(gui_policy[1], raw, e.process_cwd, document), "gui_add", raw, e)
  /\ UNCHANGED <<audit_log, gui_found>>
  /\ UNCHANGED <<gateVars, auditVars, pathVars>>

\* _run_command after the gate: the entry of the decision is written to the
\* audit log, or write_audit_log raises
gui_audited(r, made) ==
  { IF audit_fails
      THEN Outcome(Nothing, "OSError", 1, 0, TRUE, r, TRUE, <<>>)
      ELSE Outcome(Some(0), None, 1, 0, TRUE, r, FALSE, <<made>>) :
    audit_fails \in BOOLEAN }

\* _run_command, lines 2516-2603: the gate is always called with
\* execute=False; with execute set a command that is not blocked is shown as
\* a command line to paste, and no process is started
gui_decided(g, command, cwd, execute) ==
  IF g.kind = "raise" THEN { Outcome(Nothing, g.exc, 1, 0, FALSE, NoResult, FALSE, <<>>) }
  ELSE IF execute /\ g.result.reason # "blocked_by_policy"
    THEN gui_audited(manual_command_generated,
                     audit_entry(command, cwd, manual_command_generated))
  ELSE gui_audited(g.result, audit_entry(command, cwd, g.result))

\* _run_command, lines 2499-2511 and the calls of self.runner.run
gui_run_in(p, cwd, command, execute, e) ==
  IF cwd.exc # None THEN { Raises(cwd.exc) }
  ELSE IF cwd.path \notin ExistingDirs THEN { Returns(0) }
  ELSE gui_decided(run_gate([command |-> command, cwd |-> cwd.path, execute |-> FALSE,
                             timeout_sec |-> Nothing], p, e),
                   command, cwd.path, execute)

\* _run_command(execute) for the command and the working directory typed in
\* the window
gui_run_command(p, command, cwd_text, execute, e) ==
  IF command = <<>> THEN { Returns(0) }
  ELSE gui_run_in(p, normalize_path(cwd_text, Nothing, e.process_cwd), command, execute, e)

\* what _run_command leaves: the policy switched on when a command is
\* generated, the entry in the audit log, and the decision shown
GuiRunDone(out, protected, command, cwd_text, execute, e) ==
  /\ audit_log' = audit_log \o out.appended
  /\ gui_policy' = IF execute /\ out.gate_calls > 0 THEN Some(protected.policy) ELSE gui_policy
  /\ document' = IF execute /\ out.gate_calls > 0 THEN protected.document ELSE document
  /\ last' = [NoLast EXCEPT !.op = "gui_run", !.command = command, !.cwd = cwd_text,
                            !.execute = execute, !.env = e, !.out = out]

\* the user presses "check" (execute false) or "run" (execute true)
GuiRun(command, cwd_text, execute, e) ==
  /\ gui_policy # Nothing
  /\ invocations < MaxInvocations
  /\ invocations' = invocations + 1
  /\ \E out \in gui_run_command(gui_policy[1], command, cwd_text, execute, e) :
       GuiRunDone(out, gui_protected(gui_policy[1], document), command, cwd_text, execute, e)
  /\ UNCHANGED gui_found
  /\ UNCHANGED <<gateVars, auditVars, pathVars>>

CliNext ==
  \/ \E force \in BOOLEAN : CliInitCommand(force)
  \/ \E e \in PolicyEnvs : CliShow(e)
  \/ \E policy_cmd \in PolicyCmds, raw \in PolicyArgs, e \in PolicyEnvs :
       CliPolicy(policy_cmd, raw, e)
  \/ \E command \in CliCommands, cwd_arg \in CwdArgs, execute \in BOOLEAN, e \in CliEnvs :
       CliRun(command, cwd_arg, execute, e)
  \/ \E e \in PolicyEnvs : GuiOpen(e)
  \/ \E raw \in PolicyArgs, e \in PolicyEnvs : GuiAddPath(raw, e)
(* actions of the gate *)

GateInit ==
  /\ pc = "idle"
  /\ request = NoRequest
  /\ policy = NoPolicy
  /\ env = NoEnv
  /\ executor = "default_executor"
  /\ calls = <<>>
  /\ outcome = NoOutcome
  /\ child = "none"
  /\ result = NoResult
  /\ exception = None

\* the end of run: it returns a RunResult or an exception leaves it
Leave(g) ==
  /\ pc' = IF g.kind = "return" THEN "returned" ELSE "raised"
  /\ result' = g.result
  /\ exception' = g.exc

\* what run does with the outcome g of the gate: it invokes the executor
\* with (command, cwd, timeout_sec), or it ends
Proceed(g, req) ==
  IF g.kind = "invoke"
    THEN /\ pc' = "executing"
         /\ calls' = Append(calls, [command |-> req.command, cwd |-> req.cwd,
                                    timeout_sec |-> req.timeout_sec])
         /\ UNCHANGED <<result, exception>>
    ELSE /\ Leave(g)
         /\ UNCHANGED calls

\* runner.run(request, policy) is called: lines 115-150
Call(req, pol, e, ex) ==
  /\ pc = "idle"
  /\ request' = req
  /\ policy' = pol
  /\ env' = e
  /\ executor' = ex
  /\ Proceed(run_gate(req, pol, e), req)
  /\ UNCHANGED <<outcome, child>>
  /\ UNCHANGED <<auditVars, cliVars, pathVars>>

\* FileNotFoundError out of an executor whose child is already running
ExecutorNotFoundAfterSpawn ==
  /\ pc = "communicating"
  /\ outcome' = [NoOutcome EXCEPT !.kind = "FileNotFoundError",
                           !.text = "[Errno 2] No such file or directory"]
  /\ Leave(run_finish(outcome'))
  /\ UNCHANGED <<request, policy, env, executor, calls, child>>
  /\ UNCHANGED <<auditVars, cliVars, pathVars>>

\* the executor finds no executable: FileNotFoundError
ExecutorNotFound ==
  /\ pc = "executing"
  /\ outcome' = [NoOutcome EXCEPT !.kind = "FileNotFoundError",
                           !.text = "[Errno 2] No such file or directory"]
  /\ Leave(run_finish(outcome'))
  /\ UNCHANGED <<request, policy, env, executor, calls, child>>
  /\ UNCHANGED <<auditVars, cliVars, pathVars>>

\* the process cannot be started for another reason (not executable, cwd not
\* a directory, ...): an OSError that is not FileNotFoundError
ExecutorFails ==
  /\ pc = "executing"
  /\ outcome' = [NoOutcome EXCEPT !.kind = "PermissionError",
                           !.text = "[Errno 13] Permission denied"]
  /\ Leave(run_finish(outcome'))
  /\ UNCHANGED <<request, policy, env, executor, calls, child>>
  /\ UNCHANGED <<auditVars, cliVars, pathVars>>

\* default_executor: subprocess.run has spawned the child and communicates
Spawn ==
  /\ pc = "executing"
  /\ executor = "default_executor"
  /\ pc' = "communicating"
  /\ child' = "running"
  /\ UNCHANGED <<request, policy, env, executor, calls, outcome, result, exception>>
  /\ UNCHANGED <<auditVars, cliVars, pathVars>>

\* default_executor: the child exits by itself, communicate() reaps it
ChildExits(rc, streams) ==
  /\ pc = "communicating"
  /\ child = "running"
  /\ child' = "reaped"
  /\ outcome' = [kind |-> "CompletedProcess", returncode |-> rc,
                 stdout |-> or_empty(streams[1]), stderr |-> or_empty(streams[2]),
                 timeout |-> 0, text |-> ""]
  /\ Leave(run_finish(outcome'))
  /\ UNCHANGED <<request, policy, env, executor, calls>>
  /\ UNCHANGED <<auditVars, cliVars, pathVars>>

\* default_executor: communicate(timeout=timeout_sec) runs out of time
CommunicateTimesOut(streams) ==
  /\ pc = "communicating"
  /\ request.timeout_sec # Nothing
  /\ pc' = "timed_out"
  /\ outcome' = [kind |-> "TimeoutExpired", returncode |-> 0,
                 stdout |-> streams[1], stderr |-> streams[2],
                 timeout |-> request.timeout_sec[1], text |-> ""]
  /\ UNCHANGED <<request, policy, env, executor, calls, child, result, exception>>
  /\ UNCHANGED <<auditVars, cliVars, pathVars>>

\* an executor that re-raises TimeoutExpired and leaves the child alone
ReraiseWithoutKill ==
  /\ pc = "timed_out"
  /\ child' = child
  /\ Leave(run_finish(outcome))
  /\ UNCHANGED <<request, policy, env, executor, calls, outcome>>
  /\ UNCHANGED <<auditVars, cliVars, pathVars>>

\* default_executor: subprocess.run kills the child, waits for it and re-raises
KillAndWait ==
  /\ pc = "timed_out"
  /\ child' = "reaped"
  /\ Leave(run_finish(outcome))
  /\ UNCHANGED <<request, policy, env, executor, calls, outcome>>
  /\ UNCHANGED <<auditVars, cliVars, pathVars>>

\* an injected executor returns a CompletedProcess (it spawns nothing here)
InjectedReturns(rc, streams) ==
  /\ pc = "executing"
  /\ executor = "injected"
  /\ outcome' = [kind |-> "CompletedProcess", returncode |-> rc,
                 stdout |-> streams[1], stderr |-> streams[2],
                 timeout |-> 0, text |-> ""]
  /\ Leave(run_finish(outcome'))
  /\ UNCHANGED <<request, policy, env, executor, calls, child>>
  /\ UNCHANGED <<auditVars, cliVars, pathVars>>

\* an injected executor raises subprocess.TimeoutExpired
InjectedTimesOut(streams) ==
  /\ pc = "executing"
  /\ executor = "injected"
  /\ outcome' = [kind |-> "TimeoutExpired", returncode |-> 0,
                 stdout |-> streams[1], stderr |-> streams[2],
                 timeout |-> TimeoutSec, text |-> ""]
  /\ Leave(run_finish(outcome'))
  /\ UNCHANGED <<request, policy, env, executor, calls, child>>
  /\ UNCHANGED <<auditVars, cliVars, pathVars>>

\* the caller builds the next request
NextRequest ==
  /\ pc \in {"returned", "raised"}
  /\ pc' = "idle"
  /\ request' = NoRequest
  /\ policy' = NoPolicy
  /\ env' = NoEnv
  /\ executor' = "default_executor"
  /\ calls' = <<>>
  /\ outcome' = NoOutcome
  /\ child' = "none"
  /\ result' = NoResult
  /\ exception' = None
  /\ UNCHANGED <<auditVars, cliVars, pathVars>>

GateNext ==
  \/ /\ pc = "idle"
     /\ \E req \in Requests, pol \in Policies, e \in Envs, ex \in Executors :
          Call(req, pol, e, ex)
  \/ ExecutorNotFound
  \/ ExecutorFails
  \/ Spawn
  \/ \E rc \in ReturnCodes, streams \in Streams : ChildExits(rc, streams)
  \/ \E streams \in Streams : CommunicateTimesOut(streams)
  \/ KillAndWait
  \/ \E rc \in ReturnCodes, streams \in Streams : InjectedReturns(rc, streams)
  \/ \E streams \in Streams : InjectedTimesOut(streams)
  \/ NextRequest

AuditInit ==
  /\ max_bytes = MaxBytes
  /\ keep = Keep
  /\ wpc = [w \in Writers |-> "idle"]
  /\ entry = [w \in Writers |-> NoEntry]
  /\ lock_holders = {}
  /\ names = [n \in 0..Keep |-> 0]
  /\ inodes = <<>>
  /\ fd = [w \in Writers |-> 0]
  /\ idx = [w \in Writers |-> 0]
  /\ started = 0
  /\ completed = {}
  /\ failed = {}
  /\ dropped = {}
  /\ written = <<>>
  /\ snap = [w \in Writers |-> NoSnap]

\* an exception leaves the with block without the finally of _audit_lock
RaiseHoldingLock(w) ==
  /\ wpc' = [wpc EXCEPT ![w] = "idle"]
  /\ failed' = failed \cup {[id |-> entry[w].id, size |-> entry[w].size, at |-> wpc[w]]}
  /\ entry' = [entry EXCEPT ![w] = NoEntry]
  /\ lock_holders' = lock_holders
  /\ fd' = [fd EXCEPT ![w] = 0]
  /\ snap' = [snap EXCEPT ![w] = NoSnap]

\* an exception leaves the with block of line 58: the finally of line 64 closes
\* the live file if it is open, the finally of _audit_lock (lines 27-29) unlocks
\* and closes the lock file, and the exception leaves write_audit_log
Raise(w) ==
  /\ wpc' = [wpc EXCEPT ![w] = "idle"]
  /\ failed' = failed \cup {[id |-> entry[w].id, size |-> entry[w].size, at |-> wpc[w]]}
  /\ entry' = [entry EXCEPT ![w] = NoEntry]
  /\ lock_holders' = lock_holders \ {w}
  /\ fd' = [fd EXCEPT ![w] = 0]
  /\ snap' = [snap EXCEPT ![w] = NoSnap]

\* write_audit_log is called (lines 54-56) and _audit_lock opens the lock file
Begin(w, size) ==
  /\ wpc[w] = "idle"
  /\ started < MaxEntries
  /\ started' = started + 1
  /\ entry' = [entry EXCEPT ![w] = [id |-> started + 1, size |-> size]]
  /\ wpc' = [wpc EXCEPT ![w] = "flock"]
  /\ UNCHANGED <<max_bytes, keep, snap, lock_holders, names, inodes, fd, idx, completed,
                 failed, dropped>>
  /\ UNCHANGED <<written, gateVars, cliVars, pathVars>>

\* fcntl.flock(fd, fcntl.LOCK_EX) returns
Flock(w) ==
  /\ wpc[w] = "flock"
  /\ flock_exclusive(lock_holders)
  /\ lock_holders' = lock_holders \cup {w}
  /\ wpc' = [wpc EXCEPT ![w] = "rotate_check"]
  /\ UNCHANGED <<max_bytes, keep, snap, entry, names, inodes, fd, idx, started, completed,
                 failed, dropped>>
  /\ UNCHANGED <<written, gateVars, cliVars, pathVars>>

\* a caller that never looks at the size of the live file
RotateCheckSkipped(w) ==
  /\ wpc[w] = "rotate_check"
  /\ wpc' = [wpc EXCEPT ![w] = "open"]
  /\ snap' = [snap EXCEPT ![w] = contents_by_name]
  /\ UNCHANGED <<max_bytes, keep, entry, lock_holders, names, inodes, fd, idx, started,
                 completed, failed, dropped>>
  /\ UNCHANGED <<written, gateVars, cliVars, pathVars>>

\* a size test that lets a live file of exactly max_bytes grow further
RotateCheckStrict(w) ==
  /\ wpc[w] = "rotate_check"
  /\ wpc' = [wpc EXCEPT ![w] =
               IF ~exists(0) THEN "open"
               ELSE IF st_size(0) <= max_bytes THEN "open"
               ELSE "unlink_oldest"]
  /\ snap' = [snap EXCEPT ![w] = contents_by_name]
  /\ UNCHANGED <<max_bytes, keep, entry, lock_holders, names, inodes, fd, idx, started,
                 completed, failed, dropped>>
  /\ UNCHANGED <<written, gateVars, cliVars, pathVars>>

\* _rotate_if_needed, lines 35-38: rotate iff the live file exists and has
\* reached max_bytes
RotateCheck(w) ==
  /\ wpc[w] = "rotate_check"
  /\ wpc' = [wpc EXCEPT ![w] =
               IF ~exists(0) THEN "open"
               ELSE IF st_size(0) < max_bytes THEN "open"
               ELSE "unlink_oldest"]
  /\ snap' = [snap EXCEPT ![w] = contents_by_name]
  /\ UNCHANGED <<max_bytes, keep, entry, lock_holders, names, inodes, fd, idx, started,
                 completed, failed, dropped>>
  /\ UNCHANGED <<written, gateVars, cliVars, pathVars>>

\* _rotate_if_needed, lines 40-42: the backup numbered keep is removed
UnlinkOldest(w) ==
  /\ wpc[w] = "unlink_oldest"
  /\ IF exists(keep)
       THEN /\ names' = [names EXCEPT ![keep] = 0]
            /\ dropped' = dropped \cup entries_in(inodes[names[keep]])
       ELSE UNCHANGED <<names, dropped>>
  /\ idx' = [idx EXCEPT ![w] = keep - 1]
  /\ wpc' = [wpc EXCEPT ![w] = IF keep - 1 >= 1 THEN "shift" ELSE "rename_live"]
  /\ UNCHANGED <<max_bytes, keep, snap, entry, lock_holders, inodes, fd, started, completed,
                 failed>>
  /\ UNCHANGED <<written, gateVars, cliVars, pathVars>>

\* _rotate_if_needed, lines 44-48: one turn of the loop, backup idx becomes idx + 1
Shift(w) ==
  /\ wpc[w] = "shift"
  /\ IF exists(idx[w])
       THEN names' = [names EXCEPT ![idx[w] + 1] = names[idx[w]], ![idx[w]] = 0]
       ELSE UNCHANGED names
  /\ idx' = [idx EXCEPT ![w] = idx[w] - 1]
  /\ wpc' = [wpc EXCEPT ![w] = IF idx[w] - 1 >= 1 THEN "shift" ELSE "rename_live"]
  /\ UNCHANGED <<max_bytes, keep, snap, entry, lock_holders, inodes, fd, started, completed,
                 failed, dropped>>
  /\ UNCHANGED <<written, gateVars, cliVars, pathVars>>

\* a rotation that removes the live file where it should rename it
UnlinkLive(w) ==
  /\ wpc[w] = "rename_live"
  /\ names' = [names EXCEPT ![0] = 0]
  /\ wpc' = [wpc EXCEPT ![w] = "open"]
  /\ UNCHANGED <<entry, lock_holders, fd, failed, snap>>
  /\ UNCHANGED <<max_bytes, keep, inodes, idx, started, completed, dropped>>
  /\ UNCHANGED <<written, gateVars, cliVars, pathVars>>

\* _rotate_if_needed, line 50: the live file becomes backup 1; renaming a file
\* that is gone raises FileNotFoundError
RenameLive(w) ==
  /\ wpc[w] = "rename_live"
  /\ IF exists(0)
       THEN /\ names' = [names EXCEPT ![1] = names[0], ![0] = 0]
            /\ wpc' = [wpc EXCEPT ![w] = "open"]
            /\ UNCHANGED <<entry, lock_holders, fd, failed, snap>>
       ELSE /\ Raise(w)
            /\ UNCHANGED names
  /\ UNCHANGED <<max_bytes, keep, inodes, idx, started, completed, dropped>>
  /\ UNCHANGED <<written, gateVars, cliVars, pathVars>>

\* the live file opened with O_TRUNC: what it held is gone
OpenTruncating(w) ==
  /\ wpc[w] = "open"
  /\ inodes' = Append(inodes, <<>>)
  /\ names' = [names EXCEPT ![0] = Len(inodes) + 1]
  /\ fd' = [fd EXCEPT ![w] = Len(inodes) + 1]
  /\ wpc' = [wpc EXCEPT ![w] = "write"]
  /\ UNCHANGED <<max_bytes, keep, snap, entry, lock_holders, idx, started, completed, failed,
                 dropped>>
  /\ UNCHANGED <<written, gateVars, cliVars, pathVars>>

\* line 60: os.open(path, O_APPEND | O_CREAT | O_WRONLY) creates the live file
\* when it is absent
Open(w) ==
  /\ wpc[w] = "open"
  /\ IF exists(0)
       THEN /\ fd' = [fd EXCEPT ![w] = names[0]]
            /\ UNCHANGED <<names, inodes>>
       ELSE /\ inodes' = Append(inodes, <<>>)
            /\ names' = [names EXCEPT ![0] = Len(inodes) + 1]
            /\ fd' = [fd EXCEPT ![w] = Len(inodes) + 1]
  /\ wpc' = [wpc EXCEPT ![w] = "write"]
  /\ UNCHANGED <<max_bytes, keep, snap, entry, lock_holders, idx, started, completed, failed,
                 dropped>>
  /\ UNCHANGED <<written, gateVars, cliVars, pathVars>>

\* a write at offset 0 of a file opened without O_APPEND: the line takes the
\* place of the first bytes of the file
WriteAtStart(w) ==
  /\ wpc[w] = "write"
  /\ inodes' = [inodes EXCEPT ![fd[w]] =
                  line_of(entry[w])
                    \o SubSeq(inodes[fd[w]], Len(line_of(entry[w])) + 1, Len(inodes[fd[w]]))]
  /\ wpc' = [wpc EXCEPT ![w] = "close"]
  /\ UNCHANGED <<max_bytes, keep, snap, entry, lock_holders, names, fd, idx, started,
                 completed, failed, dropped>>
  /\ written' = Append(written, entry[w].id)
  /\ UNCHANGED <<gateVars, cliVars, pathVars>>

\* line 62: one os.write of the whole line at the end of the open file
Write(w) ==
  /\ wpc[w] = "write"
  /\ inodes' = [inodes EXCEPT ![fd[w]] = inodes[fd[w]] \o line_of(entry[w])]
  /\ wpc' = [wpc EXCEPT ![w] = "close"]
  /\ UNCHANGED <<max_bytes, keep, snap, entry, lock_holders, names, fd, idx, started,
                 completed, failed, dropped>>
  /\ written' = Append(written, entry[w].id)
  /\ UNCHANGED <<gateVars, cliVars, pathVars>>

\* a return that closes the live file and keeps the lock
CloseKeepingLock(w) ==
  /\ wpc[w] = "close"
  /\ fd' = [fd EXCEPT ![w] = 0]
  /\ lock_holders' = lock_holders
  /\ completed' = completed \cup {entry[w]}
  /\ entry' = [entry EXCEPT ![w] = NoEntry]
  /\ wpc' = [wpc EXCEPT ![w] = "idle"]
  /\ snap' = [snap EXCEPT ![w] = NoSnap]
  /\ UNCHANGED <<max_bytes, keep, names, inodes, idx, started, failed, dropped>>
  /\ UNCHANGED <<written, gateVars, cliVars, pathVars>>

\* lines 64 and 28-29: the file is closed, the lock released, the call returns
CloseAndUnlock(w) ==
  /\ wpc[w] = "close"
  /\ fd' = [fd EXCEPT ![w] = 0]
  /\ lock_holders' = lock_holders \ {w}
  /\ completed' = completed \cup {entry[w]}
  /\ entry' = [entry EXCEPT ![w] = NoEntry]
  /\ wpc' = [wpc EXCEPT ![w] = "idle"]
  /\ snap' = [snap EXCEPT ![w] = NoSnap]
  /\ UNCHANGED <<max_bytes, keep, names, inodes, idx, started, failed, dropped>>
  /\ UNCHANGED <<written, gateVars, cliVars, pathVars>>

\* lines 54, 22 and 23: creating the directory or opening the lock file raises
\* OSError; the lock was never taken and the error leaves write_audit_log
LockFileFails(w, size) ==
  /\ wpc[w] = "idle"
  /\ started < MaxEntries
  /\ started' = started + 1
  /\ failed' = failed \cup {[id |-> started + 1, size |-> size, at |-> "idle"]}
  /\ UNCHANGED <<max_bytes, keep, snap, wpc, entry, lock_holders, names, inodes, fd, idx,
                 completed, dropped>>
  /\ UNCHANGED <<written, gateVars, cliVars, pathVars>>

\* line 25 raises OSError inside the try of _audit_lock
FlockFails(w) ==
  /\ wpc[w] = "flock"
  /\ Raise(w)
  /\ UNCHANGED <<max_bytes, keep, names, inodes, idx, started, completed, dropped>>
  /\ UNCHANGED <<written, gateVars, cliVars, pathVars>>

\* _rotate_if_needed raises OSError: exists or stat of line 35-37, the unlink
\* of line 42, a replace of line 48 or the replace of line 50; what was renamed
\* or removed before stays so
RotateFails(w) ==
  /\ wpc[w] \in {"rotate_check", "unlink_oldest", "shift", "rename_live"}
  /\ Raise(w)
  /\ UNCHANGED <<max_bytes, keep, names, inodes, idx, started, completed, dropped>>
  /\ UNCHANGED <<written, gateVars, cliVars, pathVars>>

\* line 60: os.open of the live file raises OSError
OpenFails(w) ==
  /\ wpc[w] = "open"
  /\ Raise(w)
  /\ UNCHANGED <<max_bytes, keep, names, inodes, idx, started, completed, dropped>>
  /\ UNCHANGED <<written, gateVars, cliVars, pathVars>>

\* line 62: os.write raises OSError, nothing was written; line 64 closes
WriteFails(w) ==
  /\ wpc[w] = "write"
  /\ Raise(w)
  /\ UNCHANGED <<max_bytes, keep, names, inodes, idx, started, completed, dropped>>
  /\ UNCHANGED <<written, gateVars, cliVars, pathVars>>

AuditNext ==
  \/ \E w \in Writers, size \in 1..MaxLineLen : Begin(w, size)
  \/ \E w \in Writers : Flock(w)
  \/ \E w \in Writers : RotateCheck(w)
  \/ \E w \in Writers : UnlinkOldest(w)
  \/ \E w \in Writers : Shift(w)
  \/ \E w \in Writers : RenameLive(w)
  \/ \E w \in Writers : Open(w)
  \/ \E w \in Writers : Write(w)
  \/ \E w \in Writers : CloseAndUnlock(w)

\* the I/O errors of a call of write_audit_log
AuditFaults ==
  \/ \E w \in Writers, size \in 1..MaxLineLen : LockFileFails(w, size)
  \/ \E w \in Writers : FlockFails(w)
  \/ \E w \in Writers : RotateFails(w)
  \/ \E w \in Writers : OpenFails(w)
  \/ \E w \in Writers : WriteFails(w)

(* ------- test_write_audit_log_rotates_when_size_limit_reached -------- *)

\* the values of the test: range(20), MAX_AUDIT_BYTES 120, ROTATED_AUDIT_FILES
\* 2, a payload of 30 characters
TestWrites == 20

TestMaxBytes == 120

TestKeep == 2

TestPayloadLen == 30

\* the number of characters of str(n) for the numbers of the test
decimal_digits(n) == IF n < 10 THEN 1 ELSE 2

\* the bytes of json.dumps({"id": n, "payload": "x" * 30}) + "\n"
test_line_len(n) ==
  Len(<<"{", "\"", "i", "d", "\"", ":", " ">>) + decimal_digits(n) + Len(<<",", " ", "\"", "p", "a", "y", "l", "o", "a", "d", "\"", ":", " ", "\"">>) + TestPayloadLen
    + Len(<<"\"", "}">>) + 1

\* the line lengths of a run of the test: those of the entries of the test, or
\* entries of the least length, 30 bytes a line, in every call of the run
TestLineLens(n) ==
  { len \in {TestPayloadLen, test_line_len(n)} :
      \A e \in completed : (e.size = TestPayloadLen) = (len = TestPayloadLen) }

RotationTestInit ==
  /\ GateInit
  /\ PathsIdle
  /\ CliStart(NoDocument)
  /\ max_bytes = TestMaxBytes
  /\ keep = TestKeep
  /\ wpc = [w \in Writers |-> "idle"]
  /\ entry = [w \in Writers |-> NoEntry]
  /\ lock_holders = {}
  /\ names = [n \in 0..Keep |-> 0]
  /\ inodes = <<>>
  /\ fd = [w \in Writers |-> 0]
  /\ idx = [w \in Writers |-> 0]
  /\ started = 0
  /\ completed = {}
  /\ failed = {}
  /\ dropped = {}
  /\ written = <<>>
  /\ snap = [w \in Writers |-> NoSnap]

\* line 32 of the test: the next call of write_audit_log, by the one caller
TestBegin(size) ==
  /\ wpc[1] = "idle"
  /\ started < TestWrites
  /\ started' = started + 1
  /\ entry' = [entry EXCEPT ![1] = [id |-> started + 1, size |-> size]]
  /\ wpc' = [wpc EXCEPT ![1] = "flock"]
  /\ UNCHANGED <<max_bytes, keep, snap, lock_holders, names, inodes, fd, idx, completed,
                 failed, dropped>>
  /\ UNCHANGED <<written, gateVars, cliVars, pathVars>>

NextRotationTest ==
  \/ \E size \in TestLineLens(started) : TestBegin(size)
  \/ Flock(1)
  \/ RotateCheck(1)
  \/ UnlinkOldest(1)
  \/ Shift(1)
  \/ RenameLive(1)
  \/ Open(1)
  \/ Write(1)
  \/ CloseAndUnlock(1)


(* ------------------- normalize_path, applied twice ------------------- *)

NormPaths ==
  { <<>>, <<"k">>, <<".", "/", "k">>, <<".", ".", "/", "k">>, <<"a", "/", ".", ".", "/", ".", ".", "/", "k">>, <<"/", "s", "/", ".", ".", "/", "k">>, <<"/", ".", ".">>,
    <<"~">>, <<"~", "/", "k">>, <<"~", "u", "/", "x">>, <<".", "/", "~">>, <<"/", "s", "/", ".", "/", "k", "/">> }

NormInputs ==
  [ path : NormPaths,
    base_dir : { Nothing, Some(<< <<"p">> >>), Some(<< <<"p">>, <<"q">> >>) },
    again_base_dir : { Nothing, Some(<< <<"m">> >>) },
    process_cwd : { << <<"p">> >>, << <<"c">> >> },
    again_process_cwd : { << <<"p">>, <<"q">> >> } ]

\* normalize_path(x, b)
Normalize ==
  /\ norm_in # NoNormIn
  /\ norm_out = <<>>
  /\ norm_out' = << normalize_path(norm_in.path, norm_in.base_dir, norm_in.process_cwd) >>
  /\ UNCHANGED <<norm_in, scanVars, fileVars>>
  /\ UNCHANGED <<gateVars, auditVars, cliVars>>

\* normalize_path(str(y), b') for the Path y that the first call returned,
\* in a process whose working directory may be another one
NormalizeAgain ==
  /\ Len(norm_out) = 1
  /\ norm_out[1].exc = None
  /\ norm_out' = Append(norm_out, normalize_path(path_str(norm_out[1].path),
                                                 norm_in.again_base_dir,
                                                 norm_in.again_process_cwd))
  /\ UNCHANGED <<norm_in, scanVars, fileVars>>
  /\ UNCHANGED <<gateVars, auditVars, cliVars>>

(* ------------- extract_candidate_paths, one turn at a time ------------ *)

ScanTokens ==
  { <<>>, <<"k">>, <<"-", "o">>, <<"-", "v">>, <<"-", "o", "=", "k">>, <<"-", "x", "=", "a", "=", "/", "b">>, <<"/", "s", "/", "a", "=", "b">>,
    <<"~", "u", "/", "x">>, <<"/", "s", "/", "k">>, <<"b", ".", "t", "x", "t">> }

ScanArgs == SeqsUpTo(ScanTokens, MaxArgs)

\* extract_candidate_paths(args, cwd) is entered
ScanStart ==
  /\ scan_args \in ScanArgs
  /\ scan_cwd \in { << <<"p">> >> }
  /\ scan_pc = "loop"
  /\ arg_i = 1
  /\ expect_option_value_path = FALSE
  /\ scan_paths = <<>>
  /\ turn = NoTurn

\* the end of one turn of the loop for arg: r is what the turn hands to
\* paths.extend, or the exception of _resolve_candidate_paths, which leaves
\* extract_candidate_paths
TurnDone(arg, r) ==
  /\ turn' = [arg |-> arg, expected |-> expect_option_value_path, exc |-> r.exc,
              added |-> r.paths]
  /\ scan_pc' = IF r.exc # None THEN "raised" ELSE "loop"
  /\ scan_paths' = IF r.exc # None THEN <<>> ELSE scan_paths \o r.paths
  /\ expect_option_value_path' = turn_expect(arg, expect_option_value_path)
  /\ arg_i' = arg_i + 1

\* one turn of the loop of extract_candidate_paths, lines 220-236
ScanTurn ==
  /\ scan_pc = "loop"
  /\ arg_i <= Len(scan_args)
  /\ \E process_cwd \in Dirs :
       TurnDone(scan_args[arg_i],
                turn_paths(turn_value(scan_args[arg_i], expect_option_value_path),
                           scan_cwd, process_cwd))
  /\ UNCHANGED <<scan_args, scan_cwd, normVars, fileVars>>
  /\ UNCHANGED <<gateVars, auditVars, cliVars>>

\* return paths, line 237
ScanReturn ==
  /\ scan_pc = "loop"
  /\ arg_i > Len(scan_args)
  /\ scan_pc' = "returned"
  /\ UNCHANGED <<scan_args, scan_cwd, arg_i, expect_option_value_path, scan_paths, turn,
                 normVars, fileVars>>
  /\ UNCHANGED <<gateVars, auditVars, cliVars>>

(* -------------- the policy file under concurrent commands ------------- *)

\* one chunk of the text of a document
Chunk(doc, i) == [doc |-> doc, i |-> i]

\* a hole left by a write beyond the end of the file
Hole == Chunk(NoDocument, 0)

\* the bytes of a file that holds the whole text of doc
whole_file(doc) == [i \in 1..Chunks |-> Chunk(doc, i)]

\* path.read_text() and json.loads, line 65: "whole" when the bytes are the
\* text of one document, "empty" for no bytes, "partial" otherwise
read_kind(bytes) ==
  IF bytes = <<>> THEN "empty"
  ELSE IF bytes = whole_file(bytes[1].doc) THEN "whole"
  ELSE "partial"

\* load_policy on the bytes read: json.loads raises JSONDecodeError for an
\* empty or cut text
load_bytes(bytes, process_cwd) ==
  IF read_kind(bytes) = "whole" THEN load_policy(bytes[1].doc, process_cwd)
  ELSE [exc |-> "JSONDecodeError", policy |-> NoPolicy]

\* os.write of one chunk at offset i of a file of these bytes
write_at(bytes, i, chunk) ==
  [ j \in 1..(IF Len(bytes) > i THEN Len(bytes) ELSE i) |->
      IF j = i THEN chunk ELSE IF j <= Len(bytes) THEN bytes[j] ELSE Hole ]

FileCmds ==
  { <<"status", <<"/", "b">>>>, <<"off", <<"/", "b">>>>, <<"add", <<"/", "b">>>>, <<"add", <<"/", "c">>>> }

FileDocument == JsonObject(JsonBool(TRUE), TRUE, json_strings(<< <<"/", "s">> >>))

\* the policy file holds a whole document and no command has started
FileStart ==
  /\ policy_file = whole_file(FileDocument)
  /\ proc = [q \in Procs |-> NoProc]

\* main, lines 71-82, up to save_policy: the policy is loaded and
\* handle_policy_command computes the document to save
Loaded(q, cmd, kind, handled) ==
  proc' = [proc EXCEPT ![q] =
    [ NoProc EXCEPT !.policy_cmd = cmd[1], !.seen = kind,
        !.previous = IF kind = "whole" THEN policy_file[1].doc ELSE NoDocument,
        !.writing = handled.document,
        !.pc = IF handled.exc # None THEN "raised"
               ELSE IF cmd[1] \in {"status", "list"} \/ handled.code # 0 THEN "done"
               ELSE "saving" ] ]

\* a process starts a policy command and loads the policy file
PLoad(q, cmd) ==
  /\ proc[q].pc = "idle"
  /\ Loaded(q, cmd, read_kind(policy_file),
            main_policy(load_bytes(policy_file, << <<"p">> >>), cmd[1], cmd[2], << <<"p">> >>,
                        IF read_kind(policy_file) = "whole" THEN policy_file[1].doc
                        ELSE NoDocument))
  /\ UNCHANGED <<policy_file, normVars, scanVars>>
  /\ UNCHANGED <<gateVars, auditVars, cliVars>>

\* save_policy, line 73: Path.write_text opens the file with mode "w", which
\* cuts it to no bytes
POpen(q) ==
  /\ proc[q].pc = "saving"
  /\ policy_file' = <<>>
  /\ proc' = [proc EXCEPT ![q].pc = "opened", ![q].opened = TRUE]
  /\ UNCHANGED <<normVars, scanVars>>
  /\ UNCHANGED <<gateVars, auditVars, cliVars>>

\* one write(2) of the text, at the offset of the file object
PWrite(q) ==
  /\ proc[q].pc = "opened"
  /\ proc[q].chunks < Chunks
  /\ policy_file' = write_at(policy_file, proc[q].chunks + 1,
                             Chunk(proc[q].writing, proc[q].chunks + 1))
  /\ proc' = [proc EXCEPT ![q].chunks = @ + 1]
  /\ UNCHANGED <<normVars, scanVars>>
  /\ UNCHANGED <<gateVars, auditVars, cliVars>>

\* the file is closed and the command ends
PClose(q) ==
  /\ proc[q].pc = "opened"
  /\ proc[q].chunks = Chunks
  /\ proc' = [proc EXCEPT ![q].pc = "done"]
  /\ UNCHANGED <<policy_file, normVars, scanVars>>
  /\ UNCHANGED <<gateVars, auditVars, cliVars>>

\* a write fails (disk full, I/O error) or the process is killed: the file
\* keeps the bytes written so far
PWriteFails(q) ==
  /\ proc[q].pc = "opened"
  /\ proc[q].chunks < Chunks
  /\ proc' = [proc EXCEPT ![q].pc = "failed"]
  /\ UNCHANGED <<policy_file, normVars, scanVars>>
  /\ UNCHANGED <<gateVars, auditVars, cliVars>>
(* -------------------------- specifications --------------------------- *)

vars == <<gateVars, auditVars, cliVars, pathVars>>

Init == GateInit /\ AuditInit /\ CliStart(NoDocument) /\ PathsIdle

\* calls of CommandRunner.run, one after another
Next == GateNext

Spec == Init /\ [][Next]_vars

\* concurrent calls of write_audit_log on one log path
NextAudit == AuditNext

SpecAudit == Init /\ [][NextAudit]_vars

\* the same calls, any of which may meet an I/O error at any step
NextAuditFaults == AuditNext \/ AuditFaults

SpecAuditFaults == Init /\ [][NextAuditFaults]_vars

\* the twenty calls of the rotation test, one after another
SpecRotationTest == RotationTestInit /\ [][NextRotationTest]_vars

\* calls of main, one after another, on a policy file that was there before
InitCli ==
  GateInit /\ AuditInit /\ PathsIdle /\ \E doc \in InitialDocuments : CliStart(doc)

NextCli == CliNext

SpecCli == InitCli /\ [][NextCli]_vars

\* normalize_path applied to a path, and again to its result
InitNormalize ==
  /\ GateInit /\ AuditInit /\ CliStart(NoDocument) /\ ScanIdle /\ FileIdle
  /\ norm_in \in NormInputs
  /\ norm_out = <<>>

NextNormalize == Normalize \/ NormalizeAgain

SpecNormalize == InitNormalize /\ [][NextNormalize]_vars

\* a call of extract_candidate_paths on an argument list
InitScan ==
  GateInit /\ AuditInit /\ CliStart(NoDocument) /\ NormIdle /\ FileIdle /\ ScanStart

NextScan == ScanTurn \/ ScanReturn

SpecScan == InitScan /\ [][NextScan]_vars

\* calls of main and steps of the window, the run action among them
NextFrontEnds ==
  \/ CliNext
  \/ \E command \in CliCommands, cwd_text \in CwdArgs, execute \in BOOLEAN, e \in CliEnvs :
       GuiRun(command, cwd_text, execute, e)

SpecFrontEnds == InitCli /\ [][NextFrontEnds]_vars

\* policy commands of several processes on one policy file
InitPolicyFile ==
  GateInit /\ AuditInit /\ CliStart(NoDocument) /\ NormIdle /\ ScanIdle /\ FileStart

NextPolicyFile ==
  \E q \in Procs :
    \/ \E cmd \in FileCmds : PLoad(q, cmd)
    \/ POpen(q)
    \/ PWrite(q)
    \/ PClose(q)
    \/ PWriteFails(q)

SpecPolicyFile == InitPolicyFile /\ [][NextPolicyFile]_vars

\* the calls of write_audit_log with I/O errors, scheduled fairly: a caller
\* whose next step nothing prevents takes it (the steps under the lock are a
\* bounded run of system calls on local files), and a caller that finds the
\* lock free again and again gets it
AuditStep(w) ==
  \/ RotateCheck(w)
  \/ UnlinkOldest(w)
  \/ Shift(w)
  \/ RenameLive(w)
  \/ Open(w)
  \/ Write(w)
  \/ CloseAndUnlock(w)

FairLock == \A w \in Writers : SF_vars(Flock(w))

\* one call fewer than in the other specifications of the audit log
NextAuditFair == NextAuditFaults /\ started' < MaxEntries

SpecAuditFair ==
  /\ Init
  /\ [][NextAuditFair]_vars
  /\ \A w \in Writers : WF_vars(AuditStep(w))
  /\ FairLock


(* ------------------------ claims about the gate ---------------------- *)

Reasons ==
  { "invalid_request", "blocked_by_policy", "dry_run", "test_mode_block",
    "command_not_found", "timeout", "executed" }

\* the call of run has ended, by a return or by an exception
Finished == pc \in {"returned", "raised"}

\* the arguments the executor must receive for the current request
ThisCall ==
  [ command |-> request.command, cwd |-> request.cwd,
    timeout_sec |-> request.timeout_sec ]

\* scanning some leading part of the command yields a candidate the policy denies
DeniedCandidateExtracted ==
  \E n \in 1..Len(request.command) :
    LET found == find_blocked_paths(SubSeq(request.command, 1, n), request.cwd,
                                    policy, env.which, env.process_cwd)
    IN  found.exc = None /\ found.blocked # <<>>

\* C1: every request with a non-empty command and a denied candidate ends as
\* blocked_by_policy, exit code 25, not executed, whatever execute and the
\* test-mode flag are
C1_DeniedAlwaysBlocked ==
  (Finished /\ request.command # <<>> /\ DeniedCandidateExtracted)
    => /\ pc = "returned"
       /\ result.reason = "blocked_by_policy"
       /\ result.exit_code = 25
       /\ ~result.executed

\* C2: the executor is not invoked for an empty command, a denied candidate,
\* execute = false or test mode; in every other case it is invoked exactly once
\* with the command, cwd and timeout of the request
C2_ExecutorInvocations ==
  Finished =>
    IF \/ request.command = <<>>
       \/ DeniedCandidateExtracted
       \/ ~request.execute
       \/ env.test_mode = "1"
      THEN calls = <<>>
      ELSE calls = <<ThisCall>>

\* C3: every call of run ends by returning one RunResult with a reason of the
\* closed set, never by an exception
C3_AlwaysARunResult ==
  Finished => (pc = "returned" /\ exception = None /\ result.reason \in Reasons)

\* C4: with enabled = false is_denied is false for every target, run never
\* reports blocked_by_policy, and the call goes as with an empty deny list
C4_DisabledPolicyAllowsAll ==
  (pc # "idle" /\ ~policy.enabled) =>
    /\ \A i \in 1..Len(policy.deny_paths) :
         ~is_denied(policy, policy.deny_paths[i] \o << <<"k">> >>, env.process_cwd)
    /\ result.reason # "blocked_by_policy"
    /\ result.blocked_paths = <<>>
    /\ LET g == run_gate(request, [enabled |-> TRUE, deny_paths |-> <<>>], env)
       IN  IF g.kind = "invoke"
             THEN calls = <<ThisCall>>
             ELSE /\ Finished
                  /\ calls = <<>>
                  /\ result = g.result
                  /\ exception = g.exc
    /\ (pc = "returned" /\ request.command # <<>> /\ ~request.execute)
         => result.reason = "dry_run"
    /\ (pc = "returned" /\ request.execute /\ env.test_mode # "1" /\ request.command # <<>>)
         => (calls = <<ThisCall>> /\ result.reason \in {"executed", "timeout", "command_not_found"})

\* a disabled policy lists /s, the command reads /s/k, and the command ran
C4_Witness ==
  /\ pc = "returned"
  /\ ~policy.enabled
  /\ policy.deny_paths # <<>>
  /\ request.command = << <<"c", "a", "t">>, <<"/", "s", "/", "k">> >>
  /\ result.reason = "executed"

\* the normalized paths of the current state: the deny paths, the tokens of the
\* command taken as paths below cwd, and the root
StateTargets ==
  LET tokens == { request.command[i] : i \in 1..Len(request.command) }
      normal == { normalize_path(t, Some(request.cwd), env.process_cwd) : t \in tokens }
  IN  { n.path : n \in { m \in normal : m.exc = None } } \cup Range(policy.deny_paths) \cup {<<>>}

\* the paths of a set and their ancestors
WithAncestors(paths) ==
  UNION { { SubSeq(p, 1, n) : n \in 0..Len(p) } : p \in paths }

\* D's components are the first components of P, one by one
ComponentPrefix(D, P) ==
  /\ Len(D) <= Len(P)
  /\ \A i \in 1..Len(D) : P[i] = D[i]

\* C5: is_subpath(P, D) iff the components of D are a prefix of (or equal to)
\* those of P, so a path sharing only a string prefix with D is no subpath; and
\* under an enabled policy is_denied(P) iff some deny path is such an ancestor
C5_SubpathIsComponentPrefix ==
  /\ \A P \in WithAncestors(StateTargets), D \in WithAncestors(StateTargets) :
       is_subpath(P, D) <=> ComponentPrefix(D, P)
  /\ policy.enabled =>
       \A P \in StateTargets :
         is_denied(policy, P, env.process_cwd)
           <=> \E i \in 1..Len(policy.deny_paths) : ComponentPrefix(policy.deny_paths[i], P)
  /\ (pc = "returned" /\ result.reason = "blocked_by_policy") =>
       \A i \in 1..Len(result.blocked_paths) :
         \E j \in 1..Len(policy.deny_paths) :
           \/ result.blocked_paths[i] = path_str(policy.deny_paths[j])
           \/ startswith(result.blocked_paths[i], path_str(policy.deny_paths[j]) \o <<"/">>)

\* /s is denied, the command names /s2/k, and the call was not blocked
C5_Witness ==
  /\ pc = "returned"
  /\ policy.enabled
  /\ << <<"s">> >> \in Range(policy.deny_paths)
  /\ request.command = << <<"c", "a", "t">>, <<"/", "s", "2", "/", "k">> >>
  /\ env.which = Nothing
  /\ result.reason = "dry_run"

\* the candidates of the three sources of find_blocked_paths
EnvCandidates ==
  UNION { Range(_resolve_candidate_paths(request.command[i], request.cwd, env.process_cwd).paths)
          : i \in 1..leading_assignments(request.command) }

ExecutableCandidates ==
  LET k == leading_assignments(request.command)
  IN  IF k < Len(request.command)
        THEN Range(resolve_executable(request.command[k + 1], env.which, env.process_cwd).path)
        ELSE {}

ArgumentCandidates ==
  LET k == leading_assignments(request.command)
      first == IF k < Len(request.command) THEN k + 2 ELSE 2
  IN  Range(extract_candidate_paths(SubSeq(request.command, first, Len(request.command)),
                                    request.cwd, env.process_cwd).paths)

DeniedCandidates ==
  { path_str(c) : c \in { d \in EnvCandidates \cup ExecutableCandidates \cup ArgumentCandidates :
                           is_denied(policy, d, env.process_cwd) } }

\* C6: blocked_paths is exactly the set of denied candidates of the three
\* sources, as normalized path strings, without duplicates, in ascending order
C6_BlockedPathsSortedUnique ==
  (pc = "returned" /\ request.command # <<>>) =>
    /\ Range(result.blocked_paths) = DeniedCandidates
    /\ \A i \in 1..(Len(result.blocked_paths) - 1) :
         str_less(result.blocked_paths[i], result.blocked_paths[i + 1])

\* two denied candidates given in descending order, one at the executable
\* position and one in an argument
C6_Witness ==
  /\ pc = "returned"
  /\ request.command = << <<"/", "s", "/", "k">>, <<"A", "=", "/", "b", "/", "k">> >>
  /\ result.reason = "blocked_by_policy"
  /\ result.blocked_paths = << <<"/", "b", "/", "k">>, <<"/", "s", "/", "k">> >>

\* C7: each outcome has its fixed reason, exit code and executed flag; a timeout
\* carries the streams captured so far, an execution the child's exit code and
\* its whole output
C7_OutcomeTriples ==
  pc = "returned" =>
    /\ result.reason \in Reasons
    /\ result.reason = "invalid_request" <=> request.command = <<>>
    /\ result.reason = "invalid_request" => (result.exit_code = 2 /\ ~result.executed)
    /\ result.reason = "blocked_by_policy" => (result.exit_code = 25 /\ ~result.executed)
    /\ result.reason = "dry_run" => (result.exit_code = 0 /\ ~result.executed)
    /\ result.reason = "test_mode_block" => (result.exit_code = 26 /\ ~result.executed)
    /\ result.reason = "command_not_found" <=> outcome.kind = "FileNotFoundError"
    /\ result.reason = "command_not_found" => (result.exit_code = 127 /\ ~result.executed)
    /\ result.reason = "timeout" <=> outcome.kind = "TimeoutExpired"
    /\ result.reason = "timeout" =>
         /\ result.exit_code = 124
         /\ result.executed
         /\ result.stdout = or_empty(outcome.stdout)
         /\ result.stderr = or_empty(outcome.stderr)
    /\ result.reason = "executed" <=> outcome.kind = "CompletedProcess"
    /\ result.reason = "executed" =>
         /\ result.exit_code = outcome.returncode
         /\ result.executed
         /\ result.stdout = or_empty(outcome.stdout)
         /\ result.stderr = or_empty(outcome.stderr)

\* a timeout of the default executor that had captured output
C7_Witness ==
  /\ pc = "returned"
  /\ executor = "default_executor"
  /\ result.reason = "timeout"
  /\ result.exit_code = 124
  /\ result.executed
  /\ result.stdout = "out"

\* C8: when run returns the timeout result, the child is neither running nor an
\* unreaped zombie
C8_TimeoutChildReaped ==
  (pc = "returned" /\ result.reason = "timeout") => child \in {"none", "reaped"}

\* the default executor spawned a child, timed out, and the result is returned
C8_Witness ==
  /\ pc = "returned"
  /\ result.reason = "timeout"
  /\ executor = "default_executor"
  /\ calls = <<ThisCall>>
  /\ child = "reaped"

(* --------------------- claims about the audit log -------------------- *)

\* the positions at which a caller is inside the with block of _audit_lock
LockedPcs ==
  {"rotate_check", "unlink_oldest", "shift", "rename_live", "open", "write", "close"}

\* after the size check and before the end of the append
SectionPcs == {"unlink_oldest", "shift", "rename_live", "open", "write"}

\* rotating: unlinking or renaming
RotatingPcs == {"unlink_oldest", "shift", "rename_live"}

\* C9: the lock is taken before the size check and held until the entry is
\* written, at most one caller is between its size check and the end of its
\* append, and nobody rotates while another caller is in that stretch
C9_OneWriterInSection ==
  /\ \A w \in Writers : wpc[w] \in LockedPcs => w \in lock_holders
  /\ Cardinality(lock_holders) <= 1
  /\ \A w1, w2 \in Writers :
       (w1 # w2 /\ wpc[w1] \in SectionPcs) => wpc[w2] \notin LockedPcs
  /\ \A w1, w2 \in Writers :
       (w1 # w2 /\ wpc[w1] \in RotatingPcs) => wpc[w2] \notin SectionPcs \cup {"rotate_check"}

\* one caller renames the live file while another waits for the lock
C9_Witness ==
  \E w1, w2 \in Writers :
    /\ w1 # w2
    /\ wpc[w1] = "rename_live"
    /\ wpc[w2] = "flock"
    /\ lock_holders = {w1}

\* the contents of the live file and of the backups that exist
KeptFiles == { inodes[names[n]] : n \in { m \in DOMAIN names : names[m] # 0 } }

\* the number of places where the whole line of e stands in the kept files
Occurrences(e) ==
  Cardinality({ <<n, off>> \in (DOMAIN names) \X (1..(MaxBytes + MaxLineLen)) :
                  /\ names[n] # 0
                  /\ off + e.size - 1 <= Len(inodes[names[n]])
                  /\ SubSeq(inodes[names[n]], off, off + e.size - 1) = line_of(e) })

\* a file content is a run of whole lines: every byte stands in its line, the
\* bytes of a line in order and together
WholeLines(content) ==
  \A i \in 1..Len(content) :
    /\ content[i][2] > 1 => (i > 1 /\ content[i - 1] = <<content[i][1], content[i][2] - 1>>)
    /\ content[i][2] = 1 =>
         \E e \in completed \cup {entry[w] : w \in Writers} :
           /\ e.id = content[i][1]
           /\ i + e.size - 1 <= Len(content)
           /\ SubSeq(content, i, i + e.size - 1) = line_of(e)

C11_LockReleasedOnEveryExit ==
  /\ \A w \in lock_holders : wpc[w] \in LockedPcs
  /\ (\A w \in Writers : wpc[w] \notin LockedPcs) => flock_exclusive(lock_holders)

\* a call raised while it held the lock, and a later caller holds the lock now
C11_Witness ==
  \E e \in failed, w \in Writers :
    /\ e.at \in {"unlink_oldest", "shift", "rename_live", "open", "write"}
    /\ w \in lock_holders
    /\ entry[w].id > e.id

\* the file that a caller found under a name at its size check reached the
\* rotation threshold
reached_threshold(found) == found # Nothing /\ Len(found[1]) >= max_bytes

\* what a rotation makes of the files found: the live file is backup 1, backup
\* i is backup i + 1, the backup numbered keep is in no name any more, and the
\* live file holds the new line alone
Rotated(found, now, line) ==
  /\ \A i \in 0..(keep - 1) : now[i + 1] = found[i]
  /\ found[keep] # Nothing => \A n \in DOMAIN now : now[n] # found[keep]
  /\ now[0] = Some(line)

\* what an append without rotation makes of the files found: the backups are
\* as they were and the live file has gained the line at its end
Appended(found, now, line) ==
  /\ \A i \in 1..keep : now[i] = found[i]
  /\ now[0] = Some((IF found[0] = Nothing THEN <<>> ELSE found[0][1]) \o line)

\* C12: when a call has written its line, the files are those it found at its
\* size check, rotated iff the live file existed with a size at or above
\* max_bytes, and otherwise untouched but for the line appended to the live file
C12_RotationIffThresholdReached ==
  \A w \in Writers :
    wpc[w] = "close" =>
      IF reached_threshold(snap[w][0])
        THEN Rotated(snap[w], contents_by_name, line_of(entry[w]))
        ELSE Appended(snap[w], contents_by_name, line_of(entry[w]))

\* a call has rotated a live file of exactly max_bytes while every backup
\* existed
C12_Witness ==
  \E w \in Writers :
    /\ wpc[w] = "close"
    /\ snap[w][0] # Nothing
    /\ Len(snap[w][0][1]) = max_bytes
    /\ \A n \in 1..keep : snap[w][n] # Nothing

\* a step leaves every file as it was or adds the whole line of a caller at
\* its end, and a file that the step creates is empty
FilesOnlyGrowByALine ==
  /\ Len(inodes') >= Len(inodes)
  /\ \A i \in 1..Len(inodes) :
       \/ inodes'[i] = inodes[i]
       \/ \E w \in Writers : inodes'[i] = inodes[i] \o line_of(entry[w])
  /\ \A i \in (Len(inodes) + 1)..Len(inodes') : inodes'[i] = <<>>

\* a step leaves every file under its name, or renames the whole file to the
\* next backup, or removes the backup numbered keep
FilesOnlyMoveWhole ==
  \A n \in DOMAIN names :
    names[n] # 0 =>
      \/ names'[n] = names[n]
      \/ n < keep /\ names'[n + 1] = names[n]
      \/ n = keep /\ names[n] \notin { names'[k] : k \in DOMAIN names }

\* the live file after a step is the live file before it, or a new empty file
\* where there was none
LiveFileOnlyAppended ==
  \/ names'[0] = names[0]
  \/ names'[0] = 0 /\ names'[1] = names[0]
  \/ names[0] = 0 /\ names'[0] > Len(inodes)

TestDone == started = TestWrites /\ \A w \in Writers : wpc[w] = "idle"

\* the entries in the live file and in backup 1
InLiveAndFirstBackup ==
  (IF exists(0) THEN entries_in(inodes[names[0]]) ELSE {})
    \cup (IF exists(1) THEN entries_in(inodes[names[1]]) ELSE {})

\* the newest n of the entries written
Newest(n) == { id \in 1..TestWrites : id > TestWrites - n }

\* C13 as stated: after the twenty writes the live file and backup 1 exist and
\* hold twenty entries between them
C13_TwentyEntriesInLiveAndBackup ==
  TestDone =>
    /\ exists(0)
    /\ exists(1)
    /\ Cardinality(InLiveAndFirstBackup) = TestWrites

\* C13: after the twenty writes the live file and backup 1 exist and hold
\* between them the newest entries only, five of the entries of the test (two
\* in the live file, three in the backup) and eight of entries of 30 bytes;
\* the older ones are in backup 2 or were removed with it
C13_NewestEntriesInLiveAndBackup ==
  TestDone =>
    /\ exists(0)
    /\ exists(1)
    /\ InLiveAndFirstBackup =
         Newest(IF \A e \in completed : e.size = TestPayloadLen THEN 8 ELSE 5)
    /\ \A id \in 1..TestWrites :
         id \notin InLiveAndFirstBackup =>
           \/ id \in dropped
           \/ exists(2) /\ id \in entries_in(inodes[names[2]])

\* the test has made its twenty calls with its own entries, and entries were
\* removed with a backup
C13_Witness ==
  /\ TestDone
  /\ Cardinality(completed) = TestWrites
  /\ \E e \in completed : e.size = test_line_len(e.id - 1)
  /\ dropped # {}

(* ------------------ claims about the command line -------------------- *)

\* the last call of main was a run
LastRun == last.op = "run"

\* C15: a run whose audit write failed ends with the OSError of
\* write_audit_log leaving main: main returns no exit code, that of the gate
\* least of all, and the audit log has no new entry
C15_AuditFailurePropagates ==
  (LastRun /\ last.out.audit_failed) =>
    /\ last.out.returned = Nothing
    /\ last.out.exc = "OSError"
    /\ last.out.appended = <<>>

\* the command was executed, the gate returned its RunResult, and the audit
\* write failed
C15_Witness ==
  /\ LastRun
  /\ last.out.audit_failed
  /\ last.out.has_result
  /\ last.out.result.reason = "executed"
  /\ last.out.executor_calls = 1

\* the entry that main has just appended
NewEntry == audit_log'[Len(audit_log')]

\* C17: a run in which the gate returned a RunResult and from which main
\* returned has appended exactly one entry to the audit log; the entry has the
\* command of the call and executed, reason, exit_code and blocked_paths of the
\* RunResult, and main returned the exit code of the RunResult
C17_OneEntryPerDecision ==
  [][ (last'.op = "run" /\ last'.out.has_result /\ last'.out.returned # Nothing) =>
        /\ Len(audit_log') = Len(audit_log) + 1
        /\ SubSeq(audit_log', 1, Len(audit_log)) = audit_log
        /\ NewEntry.command = last'.command
        /\ NewEntry.executed = last'.out.result.executed
        /\ NewEntry.reason = last'.out.result.reason
        /\ NewEntry.exit_code = last'.out.result.exit_code
        /\ NewEntry.blocked_paths = last'.out.result.blocked_paths
        /\ last'.out.returned = Some(last'.out.result.exit_code) ]_vars

\* two runs have each left their entry: a blocked one, then an executed one
C17_Witness ==
  /\ LastRun
  /\ Len(audit_log) = 2
  /\ audit_log[1].reason = "blocked_by_policy"
  /\ audit_log[1].blocked_paths # <<>>
  /\ audit_log[2].reason = "executed"
  /\ last.out.returned = Some(3)

\* the policy that the last call of main has loaded from the document
LoadedPolicy == load_policy(document, last.env.process_cwd)

\* the working directory given to the last run is a directory that exists
CwdIsADirectory ==
  /\ normalize_path(last.cwd, Nothing, last.env.process_cwd).exc = None
  /\ normalize_path(last.cwd, Nothing, last.env.process_cwd).path \in ExistingDirs

\* C18: a run with no command, or with a working directory that does not exist
\* or is no directory, returns 2; the gate and the executor were not called
\* and the audit log has no new entry (the policy file being one that loads)
C18_UsageErrorReturnsTwo ==
  (LastRun /\ LoadedPolicy.exc = None /\ (last.command = <<>> \/ ~CwdIsADirectory)) =>
    /\ last.out.returned = Some(2)
    /\ last.out.gate_calls = 0
    /\ last.out.executor_calls = 0
    /\ last.out.appended = <<>>

\* the working directory of the last run, normalized
RunCwd == normalize_path(last.cwd, Nothing, last.env.process_cwd).path

\* a token of the command of the last run names a path under a deny path of
\* the loaded policy
ReferencesDeniedPath ==
  \E i \in 1..Len(last.command) :
    LET named == normalize_path(last.command[i], Some(RunCwd), last.env.process_cwd)
    IN  /\ named.exc = None
        /\ \E k \in 1..Len(LoadedPolicy.policy.deny_paths) :
             is_subpath(named.path, LoadedPolicy.policy.deny_paths[k])

\* C16: a run reads the policy file as it is when the run is made: when the
\* file holds an enabled policy and a token of the command names a path under
\* one of its deny paths, whether put there by policy add or found there, the
\* run is reported blocked_by_policy, main returns the exit code 25 of the
\* gate, and the executor was not called
C16_RunUsesPersistedPolicy ==
  ( /\ LastRun
    /\ LoadedPolicy.exc = None
    /\ LoadedPolicy.policy.enabled
    /\ CwdIsADirectory
    /\ ReferencesDeniedPath ) =>
    /\ last.out.has_result
    /\ last.out.result.reason = "blocked_by_policy"
    /\ last.out.executor_calls = 0
    /\ last.out.audit_failed \/ last.out.returned = Some(25)

\* the policy file is one of the malformed ones: enabled is no boolean,
\* deny_paths is no array, or an entry of deny_paths is no string
Malformed ==
  /\ document.kind = "object"
  /\ \/ document.enabled.type \notin {"bool", "missing"}
     \/ ~document.deny_is_list
     \/ \E i \in 1..Len(document.deny_paths) : document.deny_paths[i].type # "str"

\* C19: loading a malformed policy file raises PolicyError and yields no
\* Policy; a call of main that loads it returns 1 (load_policy writes nothing)
C19_MalformedPolicyRaisesPolicyError ==
  Malformed =>
    /\ \A cwd \in Dirs : load_policy(document, cwd) = [exc |-> "PolicyError", policy |-> NoPolicy]
    /\ last.op \in {"show", "policy", "run"} => last.out.returned = Some(1)

\* a string of the policy file is an absolute normalized path: normalize_path
\* gives the path that the string spells
IsNormalized(text) ==
  /\ normalize_path(text, Nothing, PolicyDir).exc = None
  /\ path_str(normalize_path(text, Nothing, PolicyDir).path) = text

\* deny_paths of a policy file holds absolute normalized paths in ascending order
NormalizedAndSorted(doc) ==
  /\ doc.kind = "object"
  /\ doc.deny_is_list
  /\ \A i \in 1..Len(doc.deny_paths) :
       doc.deny_paths[i].type = "str" /\ IsNormalized(doc.deny_paths[i].text)
  /\ \A i, j \in 1..Len(doc.deny_paths) :
       i < j => ~str_less(doc.deny_paths[j].text, doc.deny_paths[i].text)

\* C20: a step that writes the policy file (init, policy on, off, add and
\* remove, the opening of the window and its edits) leaves deny_paths with
\* absolute normalized paths in ascending order
C20_WrittenDenyPathsNormalizedSorted ==
  [][document' # document => NormalizedAndSorted(document')]_vars


(* ----------------------- normalize_path, C24 ------------------------- *)

\* the components of a normalized path: none is empty, "." or ".."
NoDotComponents(parts) ==
  \A j \in 1..Len(parts) : parts[j] \notin { <<>>, <<".">>, <<".", ".">> }

\* C24: normalize_path is idempotent: normalizing the result of
\* normalize_path(x, b) again, against any base directory and in any working
\* directory, returns the same path; and every result is absolute and has no
\* "." or ".." component.
C24_NormalizeIdempotent ==
  /\ Len(norm_out) = 2 => norm_out[2] = norm_out[1]
  /\ \A i \in 1..Len(norm_out) :
       norm_out[i].exc = None =>
         /\ startswith(path_str(norm_out[i].path), <<"/">>)
         /\ NoDotComponents(parse_parts(split_sep(path_str(norm_out[i].path))))
         /\ NoDotComponents(norm_out[i].path)

\* a relative path with ".." components was normalized against one directory
\* and its result again against another
C24_Witness ==
  /\ Len(norm_out) = 2
  /\ norm_in.path = <<"a", "/", ".", ".", "/", ".", ".", "/", "k">>
  /\ norm_in.base_dir = Some(<< <<"p">>, <<"q">> >>)
  /\ norm_in.again_base_dir = Some(<< <<"m">> >>)
  /\ norm_out[2].path = << <<"p">>, <<"k">> >>


(* ------------------- the scanner, C25 to C28 and C30 ------------------ *)

\* the scan, turn by turn, computes extract_candidate_paths
ScanIsExtract ==
  scan_pc \in {"returned", "raised"} =>
    LET r == extract_candidate_paths(scan_args, scan_cwd, scan_cwd)
    IN  /\ (scan_pc = "raised") = (r.exc # None)
        /\ r.paths = scan_paths


\* the units of an argument list as the scanner reads it: an option that
\* sets expect_option_value_path together with the value that clears it, or a
\* single token; done holds the finished units, unit the one being read
RECURSIVE scan_units(_, _, _, _, _)
scan_units(a, i, expect, unit, done) ==
  IF i > Len(a) THEN (IF unit = <<>> THEN done ELSE Append(done, unit))
  ELSE IF turn_expect(a[i], expect)
    THEN scan_units(a, i + 1, TRUE, Append(unit, a[i]), done)
    ELSE scan_units(a, i + 1, FALSE, <<>>, Append(done, Append(unit, a[i])))

\* the units in the order order[1], order[2], ..., as one argument list
RECURSIVE flatten(_, _, _)
flatten(units, order, i) ==
  IF i > Len(order) THEN <<>> ELSE units[order[i]] \o flatten(units, order, i + 1)

\* the orders of n units; an option left without a value stays last
Orders(n, last_stays) ==
  { f \in [1..n -> 1..n] :
      /\ \A i, j \in 1..n : i # j => f[i] # f[j]
      /\ last_stays => f[n] = n }

\* the argument lists obtained by moving the units of a
Permuted(a, units) ==
  { flatten(units, f, 1) :
      f \in Orders(Len(units),
                   units # <<>> /\ turn_expect(units[Len(units)][Len(units[Len(units)])],
                                               Len(units[Len(units)]) > 1) ) }

\* the candidates are the same set whatever the order of the units
SameCandidatesInAnyOrder ==
  scan_pc = "returned" =>
    \A b \in Permuted(scan_args, scan_units(scan_args, 1, FALSE, <<>>, <<>>)) :
      LET r == extract_candidate_paths(b, scan_cwd, scan_cwd)
      IN  r.exc = None /\ Range(r.paths) = Range(scan_paths)

\* a path appears once in the list that extract_candidate_paths returns
NoCandidateTwice ==
  scan_pc = "returned" =>
    \A i, j \in 1..Len(scan_paths) : scan_paths[i] = scan_paths[j] => i = j

\* C25: extraction is order-insensitive and deduplicating: moving the
\* flag/value units of an argument list leaves the set of candidate paths
\* the same, and a path referenced several times appears once among the
\* candidates.
C25_OrderInsensitiveDeduplicating == SameCandidatesInAnyOrder /\ NoCandidateTwice


\* normalize_path(text, base_dir=cwd) for the cwd of the scan
normalized_in_cwd(text) == normalize_path(text, Some(scan_cwd), scan_cwd)

\* what a turn should have added for a text that is a candidate
AddedWhole(n) == n.exc = None => turn.added = << n.path >>

\* C26: when the scanner expects the value of a path option, the current
\* token is a path candidate whether or not it looks like a path, and the
\* flag is cleared after that one token.
C26_ExpectedValueIsCandidate ==
  (turn.expected /\ turn.arg # <<>>) =>
    /\ ~expect_option_value_path
    /\ AddedWhole(normalized_in_cwd(turn.arg))

\* what a turn should have added for the value of an --opt=value token
AddedIfWanted(wanted, n) ==
  (turn.exc = None /\ n.exc = None) =>
    turn.added = IF wanted THEN << n.path >> ELSE <<>>

\* C27: for a token that starts with "-" and contains "=", the text after
\* the first "=" is a candidate iff the option is a path option or the value
\* looks like a path, and the candidate is that whole text.
C27_OptionValueIsCandidate ==
  (~turn.expected /\ startswith(turn.arg, <<"-">>) /\ contains(turn.arg, "=")) =>
    AddedIfWanted(\/ _option_expects_path(left_of(turn.arg, "="))
                  \/ _looks_like_path(right_of(turn.arg, "=")),
                  normalized_in_cwd(right_of(turn.arg, "=")))

\* C28: a positional token that looks like a path as a whole yields the
\* whole token, normalized, as a candidate, also when it contains "=".
C28_PositionalTestedWhole ==
  ( /\ ~turn.expected
    /\ turn.arg # <<>>
    /\ ~startswith(turn.arg, <<"-">>)
    /\ _looks_like_path(turn.arg) ) =>
    AddedWhole(normalized_in_cwd(turn.arg))

\* C30: a token that cannot be normalized is dropped and the scan goes on:
\* no exception leaves extract_candidate_paths, and when it returns the
\* candidates of the tokens that can be normalized are all there.
C30_ExtractionNeverAborts ==
  /\ scan_pc # "raised"
  /\ turn.exc = None


(* -------------------- relative paths at the gate, C29 ------------------ *)

\* the blocked paths when every relative token is taken against cwd
blocked_against(cwd) ==
  find_blocked_paths(request.command, request.cwd, policy, env.which, cwd).blocked

\* C29: every extracted token, the executable with a path separator and the
\* value of a leading assignment included, is normalized against the cwd of
\* the request and not against the working directory of the launcher: the
\* blocked paths are those found in a launcher that runs in the request's cwd.
C29_NormalizedAgainstRequestCwd ==
  (pc = "returned" /\ request.command # <<>>) =>
    result.blocked_paths = blocked_against(request.cwd)


(* ------------------- policy on, off, add, remove, C22 ------------------ *)

\* what a policy command may change, before and after being what load_policy
\* returns for the file before and after the command
FrameOf(before, after, policy_cmd) ==
  /\ after.exc = None
  /\ policy_cmd \in {"on", "off"} =>
       /\ Range(after.policy.deny_paths) = Range(before.policy.deny_paths)
       /\ after.policy.enabled = (policy_cmd = "on")
  /\ policy_cmd \in {"add", "remove"} =>
       after.policy.enabled = before.policy.enabled

\* C22: policy on and policy off change only the enabled flag: the deny paths
\* loaded after the command are those loaded before it and the flag loaded
\* is the new one; policy add and policy remove leave the flag as it was.
C22_PolicyCommandsFrame ==
  [][ (last'.op = "policy" /\ invocations' # invocations /\ last'.out.returned = Some(0))
        => FrameOf(load_policy(document, last'.env.process_cwd),
                   load_policy(document', last'.env.process_cwd),
                   last'.policy_cmd) ]_vars

\* protection was switched off for a policy with two deny paths
C22_Witness ==
  /\ last.op = "policy"
  /\ last.out.returned = Some(0)
  /\ last.policy_cmd = "off"
  /\ document.enabled = JsonBool(FALSE)
  /\ Len(document.deny_paths) = 2


(* -------------------- the two front ends, C23 -------------------------- *)

\* the decision of a front end: reason, executed flag and blocked paths
Decision(r) == << r.reason, r.executed, r.blocked_paths >>

\* the decisions that agent-locker run can reach for the inputs of the last
\* step on the policy file doc
CliDecisions(doc) ==
  { Decision(o.result) :
      o \in { c \in main_run(doc, last.command, last.cwd, last.execute, last.env) :
                c.has_result } }

\* C23: for the same persisted policy document (one that is switched off
\* included), command, working directory and execute flag, the run action of
\* the window reaches the decision that agent-locker run reaches.
C23_FrontEndsDecideAlike ==
  ( /\ last.op = "gui_run"
    /\ last.out.has_result
    /\ load_policy(gui_found[1], last.env.process_cwd).exc = None ) =>
    Decision(last.out.result) \in CliDecisions(gui_found[1])


(* ------------------- the policy file is rewritten, C21 ----------------- *)

\* a process that loads the policy sees the whole of a document
LoadSeesWholeDocument ==
  \A q \in Procs : proc[q].seen \in {None, "whole"}

\* after a save that failed, no other process having opened the file, the
\* file holds the document that the failed command loaded
FailedSaveKeepsDocument ==
  \A q \in Procs :
    (proc[q].pc = "failed" /\ \A r \in Procs \ {q} : ~proc[r].opened) =>
      policy_file = whole_file(proc[q].previous)

\* C21: a policy mutation rewrites the document atomically: a process that
\* loads the policy while another saves it sees the whole previous or the
\* whole new document, never an empty or a cut one, and a save that fails
\* part-way leaves the previous document in the file.
C21_PolicyRewriteAtomic == LoadSeesWholeDocument /\ FailedSaveKeepsDocument


(* ------------------- leading environment assignments, C31 -------------- *)

\* the value half of the i-th token of the request, a leading assignment
assignment_value(i) == right_of(request.command[i], "=")

\* the value of assignment i as a path of the request's cwd
assignment_path(i) ==
  normalize_path(assignment_value(i), Some(request.cwd), env.process_cwd)

\* the leading assignments whose value is path-like and names a denied path
DeniedAssignments ==
  { i \in 1..leading_assignments(request.command) :
      /\ _looks_like_path(assignment_value(i))
      /\ assignment_path(i).exc = None
      /\ is_denied(policy, assignment_path(i).path, env.process_cwd) }

\* a denied path in a leading assignment blocks the command and is reported
AssignmentsBlock ==
  (Finished /\ DeniedAssignments # {}) =>
    /\ pc = "returned"
    /\ result.reason = "blocked_by_policy"
    /\ \A i \in DeniedAssignments :
         path_str(assignment_path(i).path) \in Range(result.blocked_paths)

\* the executable is the first token after the leading assignments and no
\* other: what shutil.which finds is looked up for that token when it is a
\* bare name, and for no assignment
ExecutableAfterAssignments ==
  (pc = "returned" /\ request.command # <<>> /\ policy.enabled /\ env.which # Nothing) =>
    LET k == leading_assignments(request.command)
    IN  (\E i \in 1..Len(result.blocked_paths) : result.blocked_paths[i] = env.which[1])
          <=> /\ k < Len(request.command)
              /\ ~contains(request.command[k + 1], "/")
              /\ is_denied(policy, normalize_path(env.which[1], Nothing, env.process_cwd).path,
                           env.process_cwd)

\* C31: any number of leading IDENTIFIER=value tokens is consumed before the
\* executable is chosen, the first other token is the executable, the value
\* half of each assignment is checked against the policy when it is
\* path-like, and a denied path given only in a leading assignment blocks the
\* command.
C31_LeadingAssignmentsChecked == AssignmentsBlock /\ ExecutableAfterAssignments


(* ------------------- the gate and the environment, C32 ----------------- *)

\* g is what the gate of another call makes of the same request and policy;
\* the executor behaving alike, that call ends as the call of this state when
\* both stop at the gate with one reason and exit code, or both reach the
\* executor (the reasons after the executor are none of the gate's)
same_decision(g) ==
  IF calls = <<>>
    THEN /\ g.kind = "return"
         /\ g.result.reason = result.reason
         /\ g.result.exit_code = result.exit_code
    ELSE g.kind = "invoke"

\* C32: the decision of the gate is a function of its declared inputs: a call
\* of run with the same RunRequest, the same Policy and the same behaviour of
\* the executor returns the same reason and exit code in every environment of
\* the process (test-mode variable, PATH lookup, working directory).
C32_DecisionIndependentOfEnvironment ==
  pc = "returned" =>
    \A e \in Envs : same_decision(run_gate(request, policy, e))


(* ------------------- the fields of a RunResult, C33 -------------------- *)

\* C33: in every RunResult blocked_paths is non-empty iff the reason is
\* blocked_by_policy, and executed is true iff the reason is timeout or
\* executed; a result with executed = false never follows a call of the
\* executor that started a process.
C33_ResultFieldsAgree ==
  pc = "returned" =>
    /\ (result.blocked_paths # <<>>) <=> (result.reason = "blocked_by_policy")
    /\ result.executed <=> (result.reason \in {"timeout", "executed"})
    /\ ~result.executed => child = "none"

\* the executor was called and started no process: command_not_found
C33_Witness ==
  /\ pc = "returned"
  /\ calls # <<>>
  /\ result.reason = "command_not_found"
  /\ ~result.executed
  /\ child = "none"


(* ------------------- the backups of the audit log, C34 ----------------- *)

\* no caller is inside the with block of write_audit_log
LogAtRest == \A w \in Writers : wpc[w] \notin LockedPcs

\* the entries of a file content, in the order of their lines
ids_of(content) ==
  LET firsts == SelectSeq(content, LAMBDA b : b[2] = 1)
  IN  [i \in 1..Len(firsts) |-> firsts[i][1]]

\* the entries read from backup n down to backup 1 and then the live file
RECURSIVE read_back(_)
read_back(n) ==
  (IF exists(n) THEN ids_of(inodes[names[n]]) ELSE <<>>)
    \o (IF n = 0 THEN <<>> ELSE read_back(n - 1))

IsSuffix(s, t) ==
  /\ Len(s) <= Len(t)
  /\ SubSeq(t, Len(t) - Len(s) + 1, Len(t)) = s

\* the backups that exist are <name>.1 .. <name>.k, k not above the retention
\* count
BackupsWithoutGaps ==
  LogAtRest =>
    /\ \A n \in DOMAIN names : exists(n) => n <= keep
    /\ \A n \in 2..keep : exists(n) => exists(n - 1)

\* the backups from the highest index down and then the live file hold a
\* contiguous suffix of the entries in the order in which they were written
KeptIsSuffixInWriteOrder ==
  LogAtRest => IsSuffix(read_back(keep), written)

\* C34: after any sequence of write_audit_log calls the backups that exist
\* are <name>.1 .. <name>.k without a gap, k not above the retention count,
\* every entry of backup i + 1 was written before every entry of backup i and
\* every entry of backup 1 before every entry of the live file: the backups
\* read from the highest index down and then the live file give a contiguous
\* suffix of all entries in write order.
C34_BackupsContiguousInWriteOrder == BackupsWithoutGaps /\ KeptIsSuffixInWriteOrder


(* ------------------- the size of the live file, C35 -------------------- *)

\* the size of the line of the entry written last, 0 when none was written
last_written_size ==
  IF written = <<>> THEN 0
  ELSE LET e == CHOOSE c \in completed \cup {entry[w] : w \in Writers} :
                  c.id = written[Len(written)]
       IN  e.size

\* C35: for every interleaving of writers, whenever no writer holds the lock
\* the live file is smaller than the rotation threshold plus the size of the
\* entry written last: the file a caller appends to is the live file and had
\* not reached the threshold.
C35_LiveFileBounded ==
  /\ (lock_holders = {} /\ exists(0)) => st_size(0) < max_bytes + last_written_size
  /\ \A w \in Writers :
       wpc[w] = "write" => (fd[w] = names[0] /\ st_size(0) < max_bytes)

\* the lock is free and the live file, written by both callers, has passed
\* the threshold
C35_Witness ==
  /\ lock_holders = {}
  /\ exists(0)
  /\ st_size(0) > max_bytes
  /\ Cardinality(entries_in(inodes[names[0]])) = 2
  /\ \E w \in Writers : wpc[w] = "flock"


(* ------------------- the records of the audit log, C36 ----------------- *)

\* the exit code that run returns with a reason; the exit code of executed is
\* the return code of the process
exit_code_fits(reason, exit_code) ==
  CASE reason = "invalid_request" -> exit_code = 2
    [] reason = "blocked_by_policy" -> exit_code = 25
    [] reason = "dry_run" -> exit_code = 0
    [] reason = "test_mode_block" -> exit_code = 26
    [] reason = "command_not_found" -> exit_code = 127
    [] reason = "timeout" -> exit_code = 124
    [] OTHER -> TRUE

\* rec carries what some RunResult carries
RecordOfADecision(rec) ==
  /\ rec.reason \in Reasons
  /\ rec.executed <=> (rec.reason \in {"timeout", "executed"})
  /\ (rec.blocked_paths # <<>>) <=> (rec.reason = "blocked_by_policy")
  /\ exit_code_fits(rec.reason, rec.exit_code)

\* rec carries the fields of the RunResult r
RecordOf(rec, r) ==
  /\ rec.executed = r.executed
  /\ rec.reason = r.reason
  /\ rec.exit_code = r.exit_code
  /\ rec.blocked_paths = r.blocked_paths

\* the RunResult that the gate returned to the window in its last step: run
\* was called with execute=False and the policy of the window
WindowResult ==
  run_gate([command |-> last.command,
            cwd |-> normalize_path(last.cwd, Nothing, last.env.process_cwd).path,
            execute |-> FALSE, timeout_sec |-> Nothing],
           gui_policy[1], last.env).result

\* the record that the last step appended is that of the RunResult which run
\* returned in that step, for the command of the step
LastRecordIsTheDecision ==
  (last.op \in {"run", "gui_run"} /\ last.out.appended # <<>>) =>
    /\ audit_log[Len(audit_log)].command = last.command
    /\ RecordOf(audit_log[Len(audit_log)],
                IF last.op = "run" THEN last.out.result ELSE WindowResult)

\* C36: every record of the audit log describes one decision of the gate: its
\* reason is one of the seven reasons of a RunResult, and its executed,
\* exit_code and blocked_paths are those of a RunResult that
\* CommandRunner.run returned for the recorded command, whether the command
\* line or the window wrote it.
C36_RecordsAreGateDecisions ==
  /\ \A i \in 1..Len(audit_log) : RecordOfADecision(audit_log[i])
  /\ LastRecordIsTheDecision


(* ------------------- concurrent policy edits, C37 ---------------------- *)

\* the policy that a document of the policy file stands for
saved_policy(doc) == load_policy(doc, << <<"p">> >>).policy

\* the deny paths that the command of process q added to what it had loaded
added_by(q) ==
  Range(saved_policy(proc[q].writing).deny_paths)
    \ Range(saved_policy(proc[q].previous).deny_paths)

\* the policy f holds what the command of process q did
holds_effect(f, q) ==
  /\ added_by(q) \subseteq Range(f.deny_paths)
  /\ proc[q].policy_cmd \in {"on", "off"} => (f.enabled <=> proc[q].policy_cmd = "on")

\* the persisted policy holds what the command of process q did
EffectPersisted(q) ==
  /\ read_kind(policy_file) = "whole"
  /\ holds_effect(saved_policy(policy_file[1].doc), q)

\* every process has run a command that saved the policy, and has ended
AllSaved == \A q \in Procs : proc[q].pc = "done" /\ proc[q].opened

\* C37: policy edits of independent processes are not lost: when two policy
\* add commands for different paths, or an add and an on/off, run
\* concurrently on one policy document and both complete, the persisted
\* policy holds the effect of both.
C37_NoLostPolicyEdit == AllSaved => \A q \in Procs : EffectPersisted(q)


(* ------------------- every call finishes, C38 -------------------------- *)

\* C38: under fair scheduling of the lock every call of write_audit_log
\* finishes, by returning or by raising: no caller waits for ever for the
\* lock on the sidecar file, which is the only lock taken and is held for a
\* bounded rotation and append.
C38_EveryCallFinishes ==
  \A w \in Writers : (wpc[w] # "idle") ~> (wpc[w] = "idle")

\* a caller waits for the lock while the other caller, holding it, has the
\* live file open for its append
C38_Witness ==
  \E w1, w2 \in Writers :
    /\ wpc[w1] = "flock"
    /\ wpc[w2] = "write"
    /\ lock_holders = {w2}
    /\ fd[w2] # 0
====
